---- MODULE Spec2Model ----
(***************************************************************************)
(* Animation state machine (animation-state-machine.rs) and BVH parser     *)
(* (bvh-parser.rs) of the mocap-integration examples.                      *)
(*                                                                         *)
(* Units.  All f32 times (dt, state time, clip duration, blend duration)   *)
(* are integers counting 1/60 s; parameter values and thresholds are       *)
(* integers counting tenths.  f32 arithmetic is modelled exactly (no       *)
(* rounding): blend progress, a fraction in the code, is kept as its       *)
(* numerator over the blend duration, so `progress >= 1.0` is              *)
(* `progress >= duration`, and NAN stands for a progress that is NaN.      *)
(***************************************************************************)
EXTENDS Integers, Sequences, FiniteSets, TLC

\* ------------------------------------------------------------- bounds
MaxTransitions == 2     \* add_transition calls explored
MaxTime == 4            \* cap on any state's local time (update is not taken beyond it)

\* ------------------------------------------------------------- inputs
\* The AnimState values handed to add_state (from_mocap: time 0; speed, looping and
\* the clip duration are the caller's).
AnimStatePool ==
  [ idle   |-> [speed |-> 1, looping |-> TRUE,  duration |-> 3, time |-> 0],
    walk   |-> [speed |-> 1, looping |-> TRUE,  duration |-> 2, time |-> 0],
    attack |-> [speed |-> 2, looping |-> FALSE, duration |-> 2, time |-> 0] ]

StateNames == DOMAIN AnimStatePool

Immediate == [kind |-> "Immediate", name |-> "", threshold |-> 0]
OnComplete == [kind |-> "OnComplete", name |-> "", threshold |-> 0]
ParameterGreater(n, th) == [kind |-> "ParameterGreater", name |-> n, threshold |-> th]
ParameterLess(n, th) == [kind |-> "ParameterLess", name |-> n, threshold |-> th]
Trigger(n) == [kind |-> "Trigger", name |-> n, threshold |-> 0]

Transition(from, to, duration, condition) ==
  [from |-> from, to |-> to, duration |-> duration, condition |-> condition]

\* The Transition values handed to add_transition.
TransitionPool ==
  { Transition("idle", "walk", 4, ParameterGreater("speed", 5)),
    Transition("idle", "attack", 1, Trigger("attack")),
    Transition("attack", "idle", 2, OnComplete),
    Transition("walk", "idle", 2, ParameterLess("speed", 3)),
    Transition("walk", "attack", 1, Immediate) }

\* Transition values with the guards and durations at the edges: OnComplete out of a
\* non-looping and out of a looping state, a transition back to its own source, and a
\* blend duration of zero.
EdgeTransitionPool ==
  { Transition("idle", "attack", 1, Trigger("attack")),
    Transition("attack", "idle", 2, OnComplete),
    Transition("attack", "attack", 1, OnComplete),
    Transition("walk", "idle", 1, OnComplete),
    Transition("walk", "attack", 0, Immediate) }

ParamNames == {"speed"}
ParamValues == {0, 10}
TriggerNames == {"attack"}
DTs == {0, 1, 2}

\* ------------------------------------------------------------- state
VARIABLES
  states,         \* AnimController.states: name -> AnimState (speed, looping, duration, time)
  transitions,    \* AnimController.transitions, in registration order
  current_state,  \* AnimController.current_state
  blend_state,    \* AnimController.blend_state: <<>> (None) or <<BlendState>> (Some)
  parameters,     \* AnimController.parameters: name -> value
  triggers,       \* AnimController.triggers
  last,           \* the call that produced this state: [op, name]
  content,        \* BvhClip::parse's input, as lexemes ("\n" is a line break)
  tokenizer,      \* BvhTokenizer: [pos, line]
  parse,          \* the locals of BvhClip::parse and the parse_joint activations
  result,         \* <<>> while parsing, then <<Ok(clip)>> or <<Err(error)>>
  eval,           \* the latest call of a function that only reads: [op, args, out]
  overlay_layers  \* LayeredAnimator.overlay_layers (its base_controller is the controller)

ctrlVars == <<states, transitions, current_state, blend_state, parameters, triggers, last>>
bvhVars == <<content, tokenizer, parse, result>>
vars == <<states, transitions, current_state, blend_state, parameters, triggers, last,
          content, tokenizer, parse, result, eval, overlay_layers>>

\* The controller as one value, for the operators that model &mut self methods.
Ctrl ==
  [ states |-> states, transitions |-> transitions, current_state |-> current_state,
    blend_state |-> blend_state, parameters |-> parameters, triggers |-> triggers ]

Call(op, name) == [op |-> op, name |-> name]

\* AnimController::new(initial_state)
new(initial_state) ==
  [ states |-> <<>>, transitions |-> <<>>, current_state |-> initial_state,
    blend_state |-> <<>>, parameters |-> <<>>, triggers |-> {} ]

\* HashMap::insert
Insert(map, key, value) ==
  [k \in DOMAIN map \cup {key} |-> IF k = key THEN value ELSE map[k]]

add_state(c, state_name, state) ==
  [c EXCEPT !.states = Insert(c.states, state_name, state)]

add_transition(c, transition) ==
  [c EXCEPT !.transitions = Append(c.transitions, transition)]

set_parameter(c, name, value) ==
  [c EXCEPT !.parameters = Insert(c.parameters, name, value)]

get_parameter(c, name) ==
  IF name \in DOMAIN c.parameters THEN c.parameters[name] ELSE 0

set_trigger(c, name) ==
  [c EXCEPT !.triggers = c.triggers \cup {name}]

\* force_state that forgets to drop the in-flight blend.
force_state_keeps_blend(c, state_name) ==
  IF state_name \in DOMAIN c.states
    THEN [c EXCEPT !.current_state = state_name,
                   !.states[state_name].time = 0]
    ELSE c

\* force_state without the contains_key test (get_mut still guards the time reset).
force_state_unchecked(c, state_name) ==
  [c EXCEPT !.current_state = state_name,
            !.blend_state = <<>>,
            !.states = IF state_name \in DOMAIN c.states
                         THEN [c.states EXCEPT ![state_name].time = 0]
                         ELSE c.states]

force_state(c, state_name) ==
  IF state_name \in DOMAIN c.states
    THEN [c EXCEPT !.current_state = state_name,
                   !.blend_state = <<>>,
                   !.states[state_name].time = 0]
    ELSE c

\* The match of check_transitions: is the guard of `cond` satisfied in c?
should_transition(c, cond) ==
  CASE cond.kind = "Immediate" -> TRUE
    [] cond.kind = "OnComplete" ->
         IF c.current_state \in DOMAIN c.states
           THEN LET state == c.states[c.current_state]
                IN  ~state.looping /\ state.time >= state.duration
           ELSE FALSE
    [] cond.kind = "ParameterGreater" -> get_parameter(c, cond.name) > cond.threshold
    [] cond.kind = "ParameterLess" -> get_parameter(c, cond.name) < cond.threshold
    [] cond.kind = "Trigger" -> cond.name \in c.triggers

\* The body of the `if should_transition` of check_transitions.
commit_transition(c, trans) ==
  LET reset == IF trans.to \in DOMAIN c.states
                 THEN [c.states EXCEPT ![trans.to].time = 0]
                 ELSE c.states
  IN  [c EXCEPT !.states = reset,
                !.blend_state = << [from |-> trans.from, to |-> trans.to,
                                    progress |-> 0, duration |-> trans.duration] >>]

\* The for loop of check_transitions, from the i-th registered transition on.
RECURSIVE check_transitions_from(_, _)
check_transitions_from(c, i) ==
  IF i > Len(c.transitions) THEN c
  ELSE LET trans == c.transitions[i]
       IN  IF trans.from # c.current_state THEN check_transitions_from(c, i + 1)
           ELSE IF should_transition(c, trans.condition) THEN commit_transition(c, trans)
           ELSE check_transitions_from(c, i + 1)

\* check_transitions without the break: the last matching transition wins.
RECURSIVE check_transitions_last(_, _)
check_transitions_last(c, i) ==
  IF i < 1 THEN c
  ELSE LET trans == c.transitions[i]
       IN  IF trans.from = c.current_state /\ should_transition(c, trans.condition)
             THEN commit_transition(c, trans)
             ELSE check_transitions_last(c, i - 1)

check_transitions_no_break(c) == check_transitions_last(c, Len(c.transitions))

check_transitions(c) == check_transitions_from(c, 1)

\* update, "Update current state time".
\* An advance that holds a non-looping state at its duration.
advance_current_clamped(c, dt) ==
  IF c.current_state \in DOMAIN c.states
    THEN LET state == c.states[c.current_state]
             t == state.time + dt * state.speed
             wrapped == IF t >= state.duration
                          THEN IF state.looping THEN t % state.duration ELSE state.duration
                          ELSE t
         IN  [c EXCEPT !.states[c.current_state].time = wrapped]
    ELSE c

advance_current(c, dt) ==
  IF c.current_state \in DOMAIN c.states
    THEN LET state == c.states[c.current_state]
             t == state.time + dt * state.speed
             wrapped == IF state.looping /\ t >= state.duration
                          THEN t % state.duration ELSE t
         IN  [c EXCEPT !.states[c.current_state].time = wrapped]
    ELSE c

\* update advancing the time of every registered state but the current one.
advance_every_other(c, dt) ==
  [c EXCEPT !.states =
     [n \in DOMAIN c.states |->
        IF n = c.current_state THEN c.states[n]
        ELSE [c.states[n] EXCEPT !.time = @ + dt * c.states[n].speed]]]

\* update, "Update blend target time if blending".
advance_blend_target(c, dt) ==
  IF c.blend_state # <<>> /\ c.blend_state[1].to \in DOMAIN c.states
    THEN LET to == c.blend_state[1].to
         IN  [c EXCEPT !.states[to].time = @ + dt * c.states[to].speed]
    ELSE c

\* update, "Check for new transitions (only if not currently blending)".
\* update checking for transitions even while a blend is in flight.
check_always(c) == check_transitions(c)

check_if_idle(c) == IF c.blend_state = <<>> THEN check_transitions(c) ELSE c

\* update, "Update blend progress".
\* The progress that is the f32 NaN: 0.0 / 0.0, and any sum with it.
NAN == -1

\* `blend.progress += dt / blend.duration`, as the numerator over the duration; with a
\* duration of 0 the quotient is +infinity for dt > 0 and NaN for dt = 0.
add_progress(blend, dt) ==
  IF blend.progress = NAN \/ (blend.duration = 0 /\ dt = 0) THEN NAN
  ELSE blend.progress + dt

\* `blend.progress >= 1.0`: false of NaN, true of +infinity.
progress_complete(progress, duration) == progress # NAN /\ progress >= duration

\* advance_blend discarding a complete blend without making its target current.
advance_blend_drop_only(c, dt) ==
  IF c.blend_state # <<>>
    THEN LET blend == c.blend_state[1]
             progress == add_progress(blend, dt)
         IN  IF progress_complete(progress, blend.duration)
               THEN [c EXCEPT !.blend_state = <<>>]
               ELSE [c EXCEPT !.blend_state[1].progress = progress]
    ELSE c

\* advance_blend finalizing only when progress exceeds 1.
advance_blend_strict(c, dt) ==
  IF c.blend_state # <<>>
    THEN LET blend == c.blend_state[1]
             progress == add_progress(blend, dt)
         IN  IF progress # NAN /\ progress > blend.duration
               THEN [c EXCEPT !.current_state = blend.to, !.blend_state = <<>>]
               ELSE [c EXCEPT !.blend_state[1].progress = progress]
    ELSE c

advance_blend(c, dt) ==
  IF c.blend_state # <<>>
    THEN LET blend == c.blend_state[1]
             progress == add_progress(blend, dt)
         IN  IF progress_complete(progress, blend.duration)
               THEN [c EXCEPT !.current_state = blend.to, !.blend_state = <<>>]
               ELSE [c EXCEPT !.blend_state[1].progress = progress]
    ELSE c

\* update, "Clear triggers".
\* update clearing the triggers only when no blend is in flight.
clear_triggers_unless_blending(c) ==
  IF c.blend_state = <<>> THEN [c EXCEPT !.triggers = {}] ELSE c

clear_triggers(c) == [c EXCEPT !.triggers = {}]

\* AnimController::update, up to the sampling of the pose.
update(c, dt) ==
  clear_triggers(advance_blend(check_if_idle(advance_blend_target(advance_current(c, dt), dt)), dt))

\* ============================================================= BVH parser
\* ------------------------------------------------------------- bounds
MaxJoints == 4          \* ROOT/JOINT declarations in a generated hierarchy
MaxFrames == 2          \* frame count declared by a generated motion section
MaxTrailing == 2        \* line breaks after the last lexeme of a generated file

\* ------------------------------------------------------------- lexemes
NL == "\n"

\* str::parse::<f32> on the numeric lexemes of the generated files, in model units
\* (offsets and motion values as written, the frame time in 1/60 s).
FloatValue ==
  ("0" :> 0) @@ ("1" :> 1) @@ ("2" :> 2) @@ ("3" :> 3) @@ ("6" :> 6) @@
  ("0.0" :> 0) @@ ("1.0" :> 1) @@ ("2.0" :> 2) @@ ("0.033333" :> 2)

\* str::parse::<usize>
UsizeValue == ("0" :> 0) @@ ("1" :> 1) @@ ("2" :> 2) @@ ("3" :> 3) @@ ("6" :> 6)

parse_f32(tok) == IF tok \in DOMAIN FloatValue THEN <<FloatValue[tok]>> ELSE <<>>
parse_usize(tok) == IF tok \in DOMAIN UsizeValue THEN <<UsizeValue[tok]>> ELSE <<>>

\* Channel::from_str
ChannelNames ==
  {"Xposition", "Yposition", "Zposition", "Xrotation", "Yrotation", "Zrotation"}
Channel_from_str(tok) == IF tok \in ChannelNames THEN <<tok>> ELSE <<>>

\* ------------------------------------------------------------- tokenizer
BvhTokenizer_new == [pos |-> 1, line |-> 1]

\* A skip_whitespace that consumes line breaks without counting them.
RECURSIVE skip_whitespace_uncounted(_, _)
skip_whitespace_uncounted(input, tz) ==
  IF tz.pos <= Len(input) /\ input[tz.pos] = NL
    THEN skip_whitespace_uncounted(input, [pos |-> tz.pos + 1, line |-> tz.line])
    ELSE tz

RECURSIVE skip_whitespace(_, _)
skip_whitespace(input, tz) ==
  IF tz.pos <= Len(input) /\ input[tz.pos] = NL
    THEN skip_whitespace(input, [pos |-> tz.pos + 1, line |-> tz.line + 1])
    ELSE tz

\* Option<String> is <<>> or <<token>>.
next_token(input, tz) ==
  LET t == skip_whitespace(input, tz)
  IN  IF t.pos > Len(input)
        THEN [tz |-> t, tok |-> <<>>]
        ELSE [tz |-> [t EXCEPT !.pos = @ + 1], tok |-> <<input[t.pos]>>]

next_float(input, tz) ==
  LET r == next_token(input, tz)
  IN  [tz |-> r.tz, val |-> IF r.tok = <<>> THEN <<>> ELSE parse_f32(r.tok[1])]

next_int(input, tz) ==
  LET r == next_token(input, tz)
  IN  [tz |-> r.tz, val |-> IF r.tok = <<>> THEN <<>> ELSE parse_usize(r.tok[1])]

expect_token(input, tz, expected) ==
  LET r == next_token(input, tz)
  IN  [tz |-> r.tz, ok |-> r.tok = <<expected>>,
       message |-> IF r.tok = <<>> THEN "Expected token, got EOF"
                                   ELSE "Expected token, got another"]

\* ------------------------------------------------------------- parse
BvhParseError(message, line) == [message |-> message, line |-> line]
Err(error) == [ok |-> FALSE, error |-> error]
Ok(clip) == [ok |-> TRUE, clip |-> clip]

BvhJoint(name, offset, channels, children, parent, channel_offset) ==
  [name |-> name, offset |-> offset, channels |-> channels, children |-> children,
   parent |-> parent, channel_offset |-> channel_offset]

\* The locals of parse at its start; stack holds the parse_joint activations.
ParseStart ==
  [pc |-> "hierarchy", joints |-> <<>>, channel_offset |-> 0, stack |-> <<>>,
   total_channels |-> 0, frame_count |-> 0, frame_time |-> 0, motion_data |-> <<>>]

\* The locals once parse has returned (moved into the clip, or dropped).
ParseDone == [ParseStart EXCEPT !.pc = "done"]

Machine == [tokenizer |-> tokenizer, parse |-> parse, result |-> result]

\* `return Err(BvhParseError { message, line: tokenizer.line })`, also by `?`.
Fail(m, tz, message) ==
  [m EXCEPT !.tokenizer = tz, !.parse = ParseDone,
            !.result = <<Err(BvhParseError(message, tz.line))>>]

\* One iteration of a "Find ... section" loop of parse.
find_section(input, m, keyword, message, next_pc) ==
  LET r == next_token(input, m.tokenizer)
  IN  IF r.tok = <<>> THEN Fail(m, r.tz, message)
      ELSE IF r.tok[1] = keyword
        THEN [m EXCEPT !.tokenizer = r.tz, !.parse.pc = next_pc]
        ELSE [m EXCEPT !.tokenizer = r.tz]

\* parse, "Parse ROOT".
expect_root(input, m) ==
  LET e == expect_token(input, m.tokenizer, "ROOT")
  IN  IF e.ok THEN [m EXCEPT !.tokenizer = e.tz, !.parse.pc = "joint"]
      ELSE Fail(m, e.tz, e.message)

Top(stack) == stack[Len(stack)]

\* parse_joint up to its loop: the name, the brace and the locals.
parse_joint_begin(input, m) ==
  LET n == next_token(input, m.tokenizer)
  IN  IF n.tok = <<>> THEN Fail(m, n.tz, "Expected joint name")
      ELSE LET e == expect_token(input, n.tz, "{")
               frame == [name |-> n.tok[1],
                         parent |-> IF m.parse.stack = <<>> THEN <<>>
                                    ELSE <<Top(m.parse.stack).my_index>>,
                         my_index |-> Len(m.parse.joints),
                         my_channel_offset |-> m.parse.channel_offset,
                         offset |-> <<0, 0, 0>>, channels |-> <<>>, children |-> <<>>]
           IN  IF e.ok
                 THEN [m EXCEPT !.tokenizer = e.tz,
                                !.parse.stack = Append(@, frame),
                                !.parse.pc = "joint_loop"]
                 ELSE Fail(m, e.tz, e.message)

\* The "OFFSET" arm.
joint_offset(input, m, tz) ==
  LET x == next_float(input, tz)
      y == next_float(input, x.tz)
      z == next_float(input, y.tz)
      top == Len(m.parse.stack)
  IN  IF x.val = <<>> THEN Fail(m, x.tz, "Missing X offset")
      ELSE IF y.val = <<>> THEN Fail(m, y.tz, "Missing Y offset")
      ELSE IF z.val = <<>> THEN Fail(m, z.tz, "Missing Z offset")
      ELSE [m EXCEPT !.tokenizer = z.tz,
                     !.parse.stack[top].offset = <<x.val[1], y.val[1], z.val[1]>>]

\* The `for _ in 0..count` loop of the "CHANNELS" arm; message is "" while it succeeds.
RECURSIVE read_channels(_, _, _, _)
read_channels(input, tz, count, channels) ==
  IF count = 0 THEN [tz |-> tz, message |-> "", channels |-> channels]
  ELSE LET r == next_token(input, tz)
       IN  IF r.tok = <<>>
             THEN [tz |-> r.tz, message |-> "Missing channel name", channels |-> channels]
           ELSE IF Channel_from_str(r.tok[1]) = <<>>
             THEN [tz |-> r.tz, message |-> "Unknown channel", channels |-> channels]
           ELSE read_channels(input, r.tz, count - 1,
                              Append(channels, Channel_from_str(r.tok[1])[1]))

\* The "CHANNELS" arm.
joint_channels(input, m, tz) ==
  LET count == next_int(input, tz)
      top == Len(m.parse.stack)
  IN  IF count.val = <<>> THEN Fail(m, count.tz, "Missing channel count")
      ELSE LET r == read_channels(input, count.tz, count.val[1],
                                  m.parse.stack[top].channels)
           IN  IF r.message # "" THEN Fail(m, r.tz, r.message)
               ELSE [m EXCEPT !.tokenizer = r.tz,
                              !.parse.stack[top].channels = r.channels,
                              !.parse.channel_offset = @ + count.val[1]]

\* The "JOINT" arm up to the recursive call: the placeholder for this joint.
joint_child(m, tz) ==
  LET f == Top(m.parse.stack)
  IN  [m EXCEPT !.tokenizer = tz,
                !.parse.joints = Append(@, BvhJoint(f.name, f.offset, f.channels, <<>>,
                                                    f.parent, f.my_channel_offset)),
                !.parse.pc = "joint"]

\* The "End" arm.
joint_end_site(input, m, tz) ==
  LET site == expect_token(input, tz, "Site")
      open == expect_token(input, site.tz, "{")
      off == expect_token(input, open.tz, "OFFSET")
      z == next_float(input, next_float(input, next_float(input, off.tz).tz).tz)
      close == expect_token(input, z.tz, "}")
  IN  IF ~site.ok THEN Fail(m, site.tz, site.message)
      ELSE IF ~open.ok THEN Fail(m, open.tz, open.message)
      ELSE IF ~off.ok THEN Fail(m, off.tz, off.message)
      ELSE IF ~close.ok THEN Fail(m, close.tz, close.message)
      ELSE [m EXCEPT !.tokenizer = close.tz]

\* The "}" arm and what follows the loop: "Update or add joint", Ok(my_index), and in
\* the caller either children.push(child_idx) or, for the root, total_channels.
joint_close(m, tz) ==
  LET f == Top(m.parse.stack)
      joints == IF f.my_index < Len(m.parse.joints)
                  THEN [m.parse.joints EXCEPT ![f.my_index + 1].children = f.children]
                  ELSE Append(m.parse.joints,
                              BvhJoint(f.name, f.offset, f.channels, f.children,
                                       f.parent, f.my_channel_offset))
      callers == SubSeq(m.parse.stack, 1, Len(m.parse.stack) - 1)
  IN  IF callers = <<>>
        THEN [m EXCEPT !.tokenizer = tz, !.parse.joints = joints, !.parse.stack = <<>>,
                       !.parse.total_channels = m.parse.channel_offset,
                       !.parse.pc = "motion_section"]
        ELSE [m EXCEPT !.tokenizer = tz, !.parse.joints = joints,
                       !.parse.stack = [callers EXCEPT ![Len(callers)].children =
                                          Append(@, f.my_index)]]

\* One iteration of the loop of parse_joint.
parse_joint_loop(input, m) ==
  LET r == next_token(input, m.tokenizer)
  IN  IF r.tok = <<>> THEN Fail(m, r.tz, "Unexpected EOF in joint")
      ELSE CASE r.tok[1] = "OFFSET" -> joint_offset(input, m, r.tz)
             [] r.tok[1] = "CHANNELS" -> joint_channels(input, m, r.tz)
             [] r.tok[1] = "JOINT" -> joint_child(m, r.tz)
             [] r.tok[1] = "End" -> joint_end_site(input, m, r.tz)
             [] r.tok[1] = "}" -> joint_close(m, r.tz)
             [] OTHER -> [m EXCEPT !.tokenizer = r.tz]

\* parse, "Parse Frames:" and "Parse Frame Time:".
parse_motion_header(input, m) ==
  LET frames == expect_token(input, m.tokenizer, "Frames:")
      frame_count == next_int(input, frames.tz)
      frame == expect_token(input, frame_count.tz, "Frame")
      time == expect_token(input, frame.tz, "Time:")
      frame_time == next_float(input, time.tz)
  IN  IF ~frames.ok THEN Fail(m, frames.tz, frames.message)
      ELSE IF frame_count.val = <<>> THEN Fail(m, frame_count.tz, "Invalid frame count")
      ELSE IF ~frame.ok THEN Fail(m, frame.tz, frame.message)
      ELSE IF ~time.ok THEN Fail(m, time.tz, time.message)
      ELSE IF frame_time.val = <<>> THEN Fail(m, frame_time.tz, "Invalid frame time")
      ELSE [m EXCEPT !.tokenizer = frame_time.tz,
                     !.parse.frame_count = frame_count.val[1],
                     !.parse.frame_time = frame_time.val[1],
                     !.parse.pc = "motion"]

expected_floats(m) == m.parse.frame_count * m.parse.total_channels

\* A read that treats a missing motion value as 0 instead of failing.
read_motion_value_lenient(input, m) ==
  LET val == next_float(input, m.tokenizer)
  IN  [m EXCEPT !.tokenizer = val.tz,
                !.parse.motion_data =
                  Append(@, IF val.val = <<>> THEN 0 ELSE val.val[1])]

\* One iteration of `for i in 0..expected_floats`.
read_motion_value(input, m) ==
  LET val == next_float(input, m.tokenizer)
  IN  IF val.val = <<>> THEN Fail(m, val.tz, "Insufficient motion data")
      ELSE [m EXCEPT !.tokenizer = val.tz, !.parse.motion_data = Append(@, val.val[1])]

\* An insert that keeps the value a key already has.
HashMap_insert_absent(map, key, value) == map @@ (key :> value)

\* HashMap::insert, as `collect` applies it to each pair: the new value replaces the
\* one the key had.
HashMap_insert(map, key, value) == (key :> value) @@ map

\* `.enumerate().map(|(i, j)| (j.name.clone(), i)).collect()` from joint i on.
RECURSIVE collect(_, _, _)
collect(joints, i, map) ==
  IF i >= Len(joints) THEN map
  ELSE collect(joints, i + 1, HashMap_insert(map, joints[i + 1].name, i))

\* "Build name lookup"
name_to_index(joints) == collect(joints, 0, <<>>)

\* BvhClip::joint_index: Some(index) or None.
joint_index(clip, name) ==
  IF name \in DOMAIN clip.name_to_index THEN <<clip.name_to_index[name]>> ELSE <<>>

\* `Ok(BvhClip { .. })`.
finish(m) ==
  [m EXCEPT !.parse = ParseDone,
            !.result = <<Ok([joints |-> m.parse.joints,
                             frame_count |-> m.parse.frame_count,
                             frame_time |-> m.parse.frame_time,
                             motion_data |-> m.parse.motion_data,
                             total_channels |-> m.parse.total_channels,
                             name_to_index |-> name_to_index(m.parse.joints)])>>]

\* ------------------------------------------------------------- f32
\* Where rounding decides a result, an f32 is the pair [m, e] of its value m * 2^e,
\* with 2^23 <= |m| < 2^24, or m = 0 and e = 0: the finite normal numbers, the
\* exponent unbounded (no overflow to infinity, no subnormals, no NaN). Every operator
\* rounds the exact result to nearest, ties to even, as the hardware does.
F32(m, e) == [m |-> m, e |-> e]
F32_ZERO == F32(0, 0)

Abs(n) == IF n < 0 THEN -n ELSE n
Sign(n) == IF n < 0 THEN -1 ELSE 1

RECURSIVE BitLength(_)
BitLength(n) == IF n = 0 THEN 0 ELSE 1 + BitLength(n \div 2)

\* The f32 nearest to n * 2^e (n > 0; + a nonzero amount below one unit of n when
\* sticky).
f32_round(n, e, sticky) ==
  LET b == BitLength(n)
      s == b - 24
      q == n \div 2^s
      r == n % 2^s
      half == 2^(s - 1)
      up == r > half \/ (r = half /\ (sticky \/ q % 2 = 1))
      m == IF up THEN q + 1 ELSE q
  IN  IF n = 0 THEN F32_ZERO
      ELSE IF b <= 24 THEN F32(n * 2^(24 - b), e - (24 - b))
      ELSE IF m = 2^24 THEN F32(2^23, e + s + 1)
      ELSE F32(m, e + s)

f32_neg(x) == F32(-x.m, x.e)
f32_signed(sign, x) == IF sign < 0 THEN f32_neg(x) ELSE x

\* `k as f32`, for |k| < 2^24.
f32_from_int(k) == f32_signed(Sign(k), f32_round(Abs(k), 0, FALSE))

\* a * b: the 48-bit product of the mantissas through 12-bit halves.
f32_mul(a, b) ==
  LET x == Abs(a.m)
      y == Abs(b.m)
      hh == (x \div 4096) * (y \div 4096)
      mid == (x \div 4096) * (y % 4096) + (x % 4096) * (y \div 4096)
      ll == (x % 4096) * (y % 4096)
      low == (mid % 1024) * 4096 + ll
      top == hh * 4 + mid \div 1024 + low \div 2^22
  IN  IF a.m = 0 \/ b.m = 0 THEN F32_ZERO
      ELSE f32_signed(Sign(a.m) * Sign(b.m),
                      f32_round(top, a.e + b.e + 22, low % 2^22 # 0))

\* n more quotient bits of the division by d.
RECURSIVE long_division(_, _, _, _)
long_division(q, r, d, n) ==
  IF n = 0 THEN [q |-> q, r |-> r]
  ELSE IF 2 * r >= d THEN long_division(2 * q + 1, 2 * r - d, d, n - 1)
  ELSE long_division(2 * q, 2 * r, d, n - 1)

\* What a division by zero gives: an infinity, or NaN for 0 / 0. They are results
\* only: no operator here takes them as an argument.
F32_INFINITY(sign) == [m |-> sign, e |-> 0]
F32_NAN == [m |-> 0, e |-> 1]

\* a / b
f32_div(a, b) ==
  LET x == Abs(a.m)
      y == Abs(b.m)
      d == long_division(x \div y, x % y, y, 25)
  IN  IF b.m = 0 THEN (IF a.m = 0 THEN F32_NAN ELSE F32_INFINITY(Sign(a.m)))
      ELSE IF a.m = 0 THEN F32_ZERO
      ELSE f32_signed(Sign(a.m) * Sign(b.m), f32_round(d.q, a.e - b.e - 25, d.r # 0))

\* a + b: the operand of the smaller exponent is shifted under three guard bits.
f32_add(a, b) ==
  LET x == IF a.e >= b.e THEN a ELSE b
      y == IF a.e >= b.e THEN b ELSE a
      g == x.e - y.e
      X == Abs(x.m) * 8
      Y == IF g >= 27 THEN 0 ELSE (Abs(y.m) * 8) \div 2^g
      sticky == IF g >= 27 THEN TRUE ELSE (Abs(y.m) * 8) % 2^g # 0
      d == X - Y
  IN  IF a.m = 0 THEN b
      ELSE IF b.m = 0 THEN a
      ELSE IF Sign(x.m) = Sign(y.m)
        THEN f32_signed(Sign(x.m), f32_round(X + Y, x.e - 3, sticky))
      ELSE IF sticky THEN f32_signed(Sign(x.m), f32_round(d - 1, x.e - 3, TRUE))
      ELSE f32_signed(Sign(x.m) * Sign(d), f32_round(Abs(d), x.e - 3, FALSE))

f32_sub(a, b) == f32_add(a, f32_neg(b))

\* a < b and a > b
f32_lt(a, b) == f32_sub(a, b).m < 0
f32_gt(a, b) == f32_sub(a, b).m > 0

\* `x as usize`, for x below 2^31: negative values give 0, the fraction is dropped.
f32_as_usize(x) ==
  IF x.m <= 0 THEN 0
  ELSE IF x.e >= 0 THEN x.m * 2^x.e
  ELSE IF x.e <= -24 THEN 0
  ELSE x.m \div 2^(-x.e)

\* f32::fract: x less its integer part, exactly.
f32_fract(x) ==
  IF x.e >= 0 THEN F32_ZERO
  ELSE IF x.e <= -24 THEN x
  ELSE f32_signed(Sign(x.m), f32_round(Abs(x.m) % 2^(-x.e), x.e, FALSE))

\* ------------------------------------------------------------- sampling
JointTransform_default == [position |-> <<0, 0, 0>>, rotation |-> <<0, 0, 0>>]

\* The `match channel` of sample_joint.
set_channel(transform, channel, value) ==
  CASE channel = "Xposition" -> [transform EXCEPT !.position[1] = value]
    [] channel = "Yposition" -> [transform EXCEPT !.position[2] = value]
    [] channel = "Zposition" -> [transform EXCEPT !.position[3] = value]
    [] channel = "Xrotation" -> [transform EXCEPT !.rotation[1] = value]
    [] channel = "Yrotation" -> [transform EXCEPT !.rotation[2] = value]
    [] channel = "Zrotation" -> [transform EXCEPT !.rotation[3] = value]

\* The loop of sample_joint from channel i (0-based) on.
RECURSIVE sample_channels(_, _, _, _, _)
sample_channels(clip, joint, base, i, transform) ==
  IF i >= Len(joint.channels) THEN transform
  ELSE sample_channels(clip, joint, base, i + 1,
                       set_channel(transform, joint.channels[i + 1],
                                   clip.motion_data[base + i + 1]))

\* BvhClip::sample_joint; joint_idx and frame are 0-based and in range (an index out
\* of range panics).
sample_joint(clip, joint_idx, frame) ==
  LET joint == clip.joints[joint_idx + 1]
      base == frame * clip.total_channels + joint.channel_offset
  IN  sample_channels(clip, joint, base, 0, JointTransform_default)

\* An interpolation with its two ends exchanged.
lerp_swapped(a, b, t) == f32_add(b, f32_mul(f32_sub(a, b), t))

\* lerp
lerp(a, b, t) == f32_add(a, f32_mul(f32_sub(b, a), t))

\* `while diff > 180.0 { diff -= 360.0 }`
RECURSIVE wrap_above(_)
wrap_above(diff) ==
  IF f32_gt(diff, f32_from_int(180)) THEN wrap_above(f32_sub(diff, f32_from_int(360)))
  ELSE diff

\* `while diff < -180.0 { diff += 360.0 }`
RECURSIVE wrap_below(_)
wrap_below(diff) ==
  IF f32_lt(diff, f32_from_int(-180)) THEN wrap_below(f32_add(diff, f32_from_int(360)))
  ELSE diff

\* An angle interpolation that does not wrap the difference.
lerp_angle_unwrapped(a, b, t) == f32_add(a, f32_mul(f32_sub(b, a), t))

\* lerp_angle
lerp_angle(a, b, t) ==
  LET diff == wrap_below(wrap_above(f32_sub(b, a)))
  IN  f32_add(a, f32_mul(diff, t))

saturating_sub(a, b) == IF a >= b THEN a - b ELSE 0
min_usize(a, b) == IF a <= b THEN a ELSE b

\* BvhClip::sample_joint_lerp, on a clip whose numbers are f32 values.
sample_joint_lerp(clip, joint_idx, time) ==
  LET frame_f == f32_div(time, clip.frame_time)
      frame_a == min_usize(f32_as_usize(frame_f), saturating_sub(clip.frame_count, 1))
      frame_b == min_usize(frame_a + 1, saturating_sub(clip.frame_count, 1))
      t == f32_fract(frame_f)
      a == sample_joint(clip, joint_idx, frame_a)
      b == sample_joint(clip, joint_idx, frame_b)
  IN  IF frame_a = frame_b THEN sample_joint(clip, joint_idx, frame_a)
      ELSE [position |-> [k \in 1..3 |-> lerp(a.position[k], b.position[k], t)],
            rotation |-> [k \in 1..3 |-> lerp_angle(a.rotation[k], b.rotation[k], t)]]

\* ------------------------------------------------------------- retargeting
IDENTITY_QUAT == <<1, 0, 0, 0>>

BoneMapping(source_name, target_index, rotation_offset, position_scale) ==
  [source_name |-> source_name, target_index |-> target_index,
   rotation_offset |-> rotation_offset, position_scale |-> position_scale]

\* `joints.iter().position(|j| j.name == name)`: the first joint of that name.
joint_position(joints, name) ==
  LET named == { i \in 0..(Len(joints) - 1) : joints[i + 1].name = name }
  IN  IF named = {} THEN <<>>
      ELSE <<CHOOSE i \in named : \A j \in named : i <= j>>

\* apply_rotation_offset: the corrected Euler angles, kept as the pair they are
\* computed from (the quaternion arithmetic is not evaluated).
apply_rotation_offset(euler_deg, offset_quat) ==
  [euler_deg |-> euler_deg, offset_quat |-> offset_quat]

\* A scaling that forgets the mapping's own scale.
scaled_pos_global(position, position_scale, mapping_scale) ==
  [k \in 1..3 |-> position[k] * position_scale]

\* retarget_frame, "Apply position scaling".
scaled_pos(position, position_scale, mapping_scale) ==
  [k \in 1..3 |-> position[k] * position_scale * mapping_scale]

\* The body of retarget_frame's loop for one mapping.
retarget_mapping(clip, frame, mapping, target_bone_count, position_scale, target_poses) ==
  LET source_idx == joint_position(clip.joints, mapping.source_name)
  IN  IF source_idx = <<>> THEN target_poses
      ELSE LET source_pose == sample_joint(clip, source_idx[1], frame)
               corrected_rot ==
                 IF mapping.rotation_offset # IDENTITY_QUAT
                   THEN apply_rotation_offset(source_pose.rotation, mapping.rotation_offset)
                   ELSE source_pose.rotation
           IN  IF mapping.target_index < target_bone_count
                 THEN [target_poses EXCEPT ![mapping.target_index + 1] =
                         [position |-> scaled_pos(source_pose.position, position_scale,
                                                  mapping.position_scale),
                          rotation |-> corrected_rot]]
                 ELSE target_poses

\* `for mapping in &skeleton_map.mappings` from mapping i (1-based) on.
RECURSIVE retarget_mappings(_, _, _, _, _, _, _)
retarget_mappings(clip, frame, mappings, i, target_bone_count, position_scale, target_poses) ==
  IF i > Len(mappings) THEN target_poses
  ELSE retarget_mappings(clip, frame, mappings, i + 1, target_bone_count, position_scale,
                         retarget_mapping(clip, frame, mappings[i], target_bone_count,
                                          position_scale, target_poses))

retarget_frame(clip, frame, mappings, target_bone_count, position_scale) ==
  retarget_mappings(clip, frame, mappings, 1, target_bone_count, position_scale,
                    [i \in 1..target_bone_count |-> JointTransform_default])

\* ------------------------------------------------------------- conversion to bone matrices
\* Matrices are kept as the expressions that build them.
euler_zxy_to_quat(x_deg, y_deg, z_deg) == [euler_zxy |-> <<x_deg, y_deg, z_deg>>]
build_mat3x4(rotation, translation) == [rotation |-> rotation, translation |-> translation]
multiply_3x4(a, b) == [multiply_3x4 |-> <<a, b>>]
flatten_3x4(m) == [flatten_3x4 |-> m]

\* bvh_frame_to_zx, "Local position" and "Build local 3x4 transform" for joint i.
local_mat(clip, i, frame, position_scale) ==
  LET joint == clip.joints[i + 1]
      jt == sample_joint(clip, i, frame)
      local_quat == euler_zxy_to_quat(jt.rotation[1], jt.rotation[2], jt.rotation[3])
      local_pos == [k \in 1..3 |-> (joint.offset[k] + jt.position[k]) * position_scale]
  IN  build_mat3x4(local_quat, local_pos)

\* A world transform that leaves the parent out.
world_mat_local(world_transforms, parent, local) == <<local>>

\* bvh_frame_to_zx, "Compute world transform by multiplying with parent": <<matrix>>,
\* or <<>> when `world_transforms[parent_idx]` is out of bounds (a panic).
world_mat(world_transforms, parent, local) ==
  IF parent = <<>> THEN <<local>>
  ELSE IF parent[1] < Len(world_transforms)
    THEN <<multiply_3x4(world_transforms[parent[1] + 1], local)>>
  ELSE <<>>

\* The loop of bvh_frame_to_zx from joint i (0-based) on.
RECURSIVE world_transforms_from(_, _, _, _, _)
world_transforms_from(clip, frame, position_scale, i, world_transforms) ==
  IF i >= Len(clip.joints) THEN [panic |-> FALSE, world_transforms |-> world_transforms]
  ELSE LET world == world_mat(world_transforms, clip.joints[i + 1].parent,
                              local_mat(clip, i, frame, position_scale))
       IN  IF world = <<>> THEN [panic |-> TRUE, world_transforms |-> world_transforms]
           ELSE world_transforms_from(clip, frame, position_scale, i + 1,
                                      Append(world_transforms, world[1]))

\* bvh_frame_to_zx: [panic, bones].
bvh_frame_to_zx(clip, frame, position_scale) ==
  LET built == world_transforms_from(clip, frame, position_scale, 0, <<>>)
  IN  [panic |-> built.panic,
       bones |-> IF built.panic THEN <<>>
                 ELSE [i \in 1..Len(built.world_transforms) |->
                         flatten_3x4(built.world_transforms[i])]]

\* ------------------------------------------------------------- generated files
\* A hierarchy shape is the parent of each declaration, declarations numbered in file
\* order (0 for the ROOT): each JOINT is declared inside the previous declaration or
\* inside one of its enclosing ones.
RECURSIVE Encloses(_, _, _)
Encloses(p, a, d) == d # 0 /\ (p[d] = a \/ Encloses(p, a, p[d]))

ShapesOf(n) ==
  { p \in [1..n -> 0..(n - 1)] :
      /\ p[1] = 0
      /\ \A i \in 2..n : p[i] \in 1..(i - 1) /\ (p[i] = i - 1 \/ Encloses(p, p[i], i - 1)) }

Shapes == UNION { ShapesOf(n) : n \in 1..MaxJoints }

JointNames == <<"Hips", "Spine", "LeftUpLeg", "LeftLeg", "LeftFoot", "LeftToe">>

RootChannels ==
  <<"CHANNELS", "6", "Xposition", "Yposition", "Zposition", "Zrotation", "Xrotation",
    "Yrotation", NL>>
JointChannels == <<"CHANNELS", "3", "Zrotation", "Xrotation", "Yrotation", NL>>
EndSite == <<"End", "Site", NL, "{", NL, "OFFSET", "0.0", "1.0", "0.0", NL, "}", NL>>

RECURSIVE Concat(_)
Concat(seqs) == IF seqs = <<>> THEN <<>> ELSE Head(seqs) \o Concat(Tail(seqs))

\* The declarations of p declared directly inside i, in file order.
RECURSIVE ChildrenFrom(_, _, _)
ChildrenFrom(p, i, j) ==
  IF j > Len(p) THEN <<>>
  ELSE (IF p[j] = i THEN <<j>> ELSE <<>>) \o ChildrenFrom(p, i, j + 1)

\* The text of declaration i of shape p; `extra` is an unknown keyword line put in
\* every joint body, or <<>>.
RECURSIVE EmitJoint(_, _, _)
EmitJoint(p, i, extra) ==
  LET kids == ChildrenFrom(p, i, i + 1)
  IN  <<IF i = 1 THEN "ROOT" ELSE "JOINT", JointNames[i], NL, "{", NL,
        "OFFSET", "0.0", "1.0", "0.0", NL>>
      \o (IF i = 1 THEN RootChannels ELSE JointChannels)
      \o extra
      \o (IF kids = <<>> THEN EndSite
          ELSE Concat([k \in 1..Len(kids) |-> EmitJoint(p, kids[k], extra)]))
      \o <<"}", NL>>

TotalChannelsOf(p) == 6 + 3 * (Len(p) - 1)

MotionValues == <<"0.0", "1.0", "2.0">>

\* n motion values, a line break after each frame's row of `row` values.
MotionRows(n, row) ==
  Concat([k \in 1..n |->
            <<MotionValues[(k % 3) + 1]>> \o (IF row > 0 /\ k % row = 0 THEN <<NL>> ELSE <<>>)])

\* A file: the hierarchy of shape p, then a motion section declaring `frames` frames
\* and holding the values the variant `supplied` says.
BvhFile(p, frames, supplied, extra) ==
  LET expected == frames * TotalChannelsOf(p)
      values ==
        CASE supplied = "exact" -> MotionRows(expected, TotalChannelsOf(p))
          [] supplied = "short" ->
               IF expected = 0 THEN <<>> ELSE MotionRows(expected - 1, TotalChannelsOf(p))
          [] supplied = "long" -> MotionRows(expected + 1, TotalChannelsOf(p))
          [] supplied = "garbled" ->
               IF expected = 0 THEN <<"--">>
               ELSE MotionRows(expected - 1, TotalChannelsOf(p)) \o <<"--", NL>>
  IN  <<NL, "HIERARCHY", NL>> \o EmitJoint(p, 1, extra)
      \o <<"MOTION", NL, "Frames:", ToString(frames), NL,
           "Frame", "Time:", "0.033333", NL>>
      \o values

\* k line breaks.
Newlines(k) == [i \in 1..k |-> NL]

\* A file cut off after its first n lexemes.
Truncated(file, n) == SubSeq(file, 1, n)

BvhInputs ==
  { BvhFile(p, f, v, <<>>) :
      p \in Shapes, f \in 0..MaxFrames, v \in {"exact", "short", "long", "garbled"} }
  \cup { BvhFile(p, 1, "exact", <<"# comment", NL>>) : p \in Shapes }
  \cup { BvhFile(p, f, "short", <<>>) \o Newlines(k) :
           p \in Shapes, f \in 1..MaxFrames, k \in 1..MaxTrailing }
  \cup UNION { { Truncated(BvhFile(p, 1, "exact", <<>>), n) :
                   n \in 0..Len(BvhFile(p, 1, "exact", <<>>)) } : p \in ShapesOf(2) }

\* ------------------------------------------------------------- actions
Set(c, call) ==
  /\ states' = c.states
  /\ transitions' = c.transitions
  /\ current_state' = c.current_state
  /\ blend_state' = c.blend_state
  /\ parameters' = c.parameters
  /\ triggers' = c.triggers
  /\ last' = call
  /\ UNCHANGED <<bvhVars, eval, overlay_layers>>

\* The controller once constructed and given its first states, as main does:
\* new("idle"), add_state(idle), add_state(walk).
CtrlInit ==
  LET c == add_state(add_state(new("idle"), "idle", AnimStatePool["idle"]),
                     "walk", AnimStatePool["walk"])
  IN  /\ states = c.states
      /\ transitions = c.transitions
      /\ current_state = c.current_state
      /\ blend_state = c.blend_state
      /\ parameters = c.parameters
      /\ triggers = c.triggers
      /\ last = Call("add_state", "walk")

\* No parse under way.
BvhIdle ==
  /\ content = <<>>
  /\ tokenizer = BvhTokenizer_new
  /\ parse = ParseDone
  /\ result = <<>>

\* No call of a reading function yet.
NoEval == [op |-> "none"]

Init == CtrlInit /\ BvhIdle /\ eval = NoEval /\ overlay_layers = <<>>

AddState ==
  \E n \in StateNames : Set(add_state(Ctrl, n, AnimStatePool[n]), Call("add_state", n))

AddTransition ==
  /\ Len(transitions) < MaxTransitions
  /\ \E t \in TransitionPool :
       /\ \A i \in 1..Len(transitions) : transitions[i] # t
       /\ Set(add_transition(Ctrl, t), Call("add_transition", t.from))

SetParameter ==
  \E n \in ParamNames, v \in ParamValues :
    Set(set_parameter(Ctrl, n, v), Call("set_parameter", n))

SetTrigger ==
  \E n \in TriggerNames : Set(set_trigger(Ctrl, n), Call("set_trigger", n))

ForceState ==
  \E n \in StateNames : Set(force_state(Ctrl, n), Call("force_state", n))

Update ==
  \E dt \in DTs :
    LET c == update(Ctrl, dt)
    IN  /\ \A n \in DOMAIN c.states : c.states[n].time <= MaxTime
        /\ Set(c, Call("update", ""))

Next == AddState \/ AddTransition \/ SetParameter \/ SetTrigger \/ ForceState \/ Update

Spec == Init /\ [][Next]_vars

\* The controller configured from EdgeTransitionPool.
AddEdgeTransition ==
  /\ Len(transitions) < MaxTransitions
  /\ \E t \in EdgeTransitionPool :
       /\ \A i \in 1..Len(transitions) : transitions[i] # t
       /\ Set(add_transition(Ctrl, t), Call("add_transition", t.from))

NextEdge ==
  AddState \/ AddEdgeTransition \/ SetParameter \/ SetTrigger \/ ForceState \/ Update

SpecEdge == Init /\ [][NextEdge]_vars

\* ------------------------------------------------------------- BvhClip::parse
SetMachine(m) ==
  /\ tokenizer' = m.tokenizer
  /\ parse' = m.parse
  /\ result' = m.result
  /\ UNCHANGED <<content, ctrlVars, eval, overlay_layers>>

\* BvhClip::parse(content) is called.
InitBvh ==
  /\ CtrlInit
  /\ content \in BvhInputs
  /\ tokenizer = BvhTokenizer_new
  /\ parse = ParseStart
  /\ result = <<>>
  /\ eval = NoEval
  /\ overlay_layers = <<>>

FindHierarchy ==
  /\ parse.pc = "hierarchy"
  /\ SetMachine(find_section(content, Machine, "HIERARCHY",
                             "HIERARCHY section not found", "root"))

ExpectRoot ==
  /\ parse.pc = "root"
  /\ SetMachine(expect_root(content, Machine))

ParseJointBegin ==
  /\ parse.pc = "joint"
  /\ SetMachine(parse_joint_begin(content, Machine))

ParseJointLoop ==
  /\ parse.pc = "joint_loop"
  /\ SetMachine(parse_joint_loop(content, Machine))

FindMotion ==
  /\ parse.pc = "motion_section"
  /\ SetMachine(find_section(content, Machine, "MOTION",
                             "MOTION section not found", "frames"))

ParseMotionHeader ==
  /\ parse.pc = "frames"
  /\ SetMachine(parse_motion_header(content, Machine))

ReadMotionValue ==
  /\ parse.pc = "motion"
  /\ Len(parse.motion_data) < expected_floats(Machine)
  /\ SetMachine(read_motion_value(content, Machine))

Finish ==
  /\ parse.pc = "motion"
  /\ Len(parse.motion_data) >= expected_floats(Machine)
  /\ SetMachine(finish(Machine))

\* ------------------------------------------------------------- calls on a parsed clip
\* The functions called here only read the clip, so a call depends on no earlier
\* call: eval records one call per behaviour.
SetEval(e) ==
  /\ eval = NoEval
  /\ eval' = e
  /\ UNCHANGED <<ctrlVars, bvhVars, overlay_layers>>

\* The bone mappings the calls draw from: two sources on one target, a source no
\* clip has, a corrected rotation, scaled positions.
HALF_TURN_X == <<0, 1, 0, 0>>
MappingPool ==
  { BoneMapping("Hips", 0, IDENTITY_QUAT, 1), BoneMapping("Hips", 2, IDENTITY_QUAT, 3),
    BoneMapping("Spine", 0, IDENTITY_QUAT, 1), BoneMapping("Spine", 1, IDENTITY_QUAT, 2),
    BoneMapping("Nose", 1, IDENTITY_QUAT, 1), BoneMapping("Hips", 1, HALF_TURN_X, 1) }
SkeletonMaps ==
  {<<>>} \cup { <<a>> : a \in MappingPool } \cup { <<a, b>> : a, b \in MappingPool }
TargetBoneCounts == {2, 3}
PositionScales == {1, 2}

RetargetFrame ==
  /\ result # <<>> /\ result[1].ok
  /\ \E frame \in 0..(result[1].clip.frame_count - 1), mappings \in SkeletonMaps,
        target_bone_count \in TargetBoneCounts, position_scale \in PositionScales :
       SetEval([op |-> "retarget_frame",
                args |-> [frame |-> frame, mappings |-> mappings,
                          target_bone_count |-> target_bone_count,
                          position_scale |-> position_scale],
                out |-> retarget_frame(result[1].clip, frame, mappings, target_bone_count,
                                       position_scale)])

LookupNames == {"Hips", "Spine", "LeftUpLeg", "Nose"}

JointIndex ==
  /\ result # <<>> /\ result[1].ok
  /\ \E name \in LookupNames :
       SetEval([op |-> "joint_index", args |-> [name |-> name],
                out |-> joint_index(result[1].clip, name)])

BvhFrameToZx ==
  /\ result # <<>> /\ result[1].ok
  /\ \E frame \in 0..(result[1].clip.frame_count - 1), position_scale \in PositionScales :
       SetEval([op |-> "bvh_frame_to_zx",
                args |-> [frame |-> frame, position_scale |-> position_scale],
                out |-> bvh_frame_to_zx(result[1].clip, frame, position_scale)])

NextBvh ==
  \/ FindHierarchy \/ ExpectRoot \/ ParseJointBegin \/ ParseJointLoop
  \/ FindMotion \/ ParseMotionHeader \/ ReadMotionValue \/ Finish
  \/ RetargetFrame \/ JointIndex \/ BvhFrameToZx

SpecBvh == InitBvh /\ [][NextBvh]_vars

\* ============================================================= sampling in time
\* ------------------------------------------------------------- bounds
MaxSampledFrames == 16  \* frames of a clip that is sampled in time

\* ------------------------------------------------------------- clips
\* str::parse::<f32> of the frame times "0.041667" (24 frames per second),
\* "0.016667" (60 frames per second) and "0.5".
FRAME_TIME_24 == F32(11184900, -28)
FRAME_TIME_60 == F32(8948027, -29)
FRAME_TIME_HALF == F32(8388608, -24)
FrameTimes == {FRAME_TIME_24, FRAME_TIME_60, FRAME_TIME_HALF}

AllChannels ==
  <<"Xposition", "Yposition", "Zposition", "Zrotation", "Xrotation", "Yrotation">>

\* The motion values of frame i: neighbouring frames differ, and the Z rotation
\* alternates between 350 and 10 degrees.
MotionRow(i) ==
  [k \in 1..6 |->
     f32_from_int(CASE k = 1 -> i % 2
                    [] k = 2 -> 2
                    [] k = 3 -> (3 * i) % 4
                    [] k = 4 -> IF i % 2 = 0 THEN 350 ELSE 10
                    [] k = 5 -> (45 * i) % 360
                    [] k = 6 -> 0)]

\* A clip of one joint that owns all six channels.
SampledClip(frame_count, frame_time) ==
  [joints |-> <<BvhJoint("Hips", <<F32_ZERO, F32_ZERO, F32_ZERO>>, AllChannels, <<>>, <<>>, 0)>>,
   frame_count |-> frame_count,
   frame_time |-> frame_time,
   motion_data |-> Concat([i \in 1..frame_count |-> MotionRow(i - 1)]),
   total_channels |-> 6,
   name_to_index |-> ("Hips" :> 0)]

SampledClips ==
  { SampledClip(n, ft) : n \in 1..MaxSampledFrames, ft \in FrameTimes }

\* The times a caller asks for: k frame times and k half frame times, computed in f32,
\* up to past the end of the clip.
SampleTimes(clip) ==
  { f32_mul(f32_from_int(k), step) :
      k \in 0..(clip.frame_count + 1),
      step \in {clip.frame_time, f32_mul(clip.frame_time, F32(8388608, -24))} }

\* Angles in degrees and interpolation factors 0, 1/4, 1/2 and 1.
Angles == { f32_from_int(d) : d \in {-350, -180, -90, 0, 10, 90, 170, 180, 190, 350, 360, 540, 720} }
Factors == { F32_ZERO, F32(8388608, -25), F32(8388608, -24), F32(8388608, -23) }

\* ------------------------------------------------------------- calls
SampleJointLerp ==
  \E clip \in SampledClips :
    \E time \in SampleTimes(clip) :
      SetEval([op |-> "sample_joint_lerp",
               args |-> [clip |-> clip, joint_idx |-> 0, time |-> time],
               out |-> sample_joint_lerp(clip, 0, time)])

LerpAngle ==
  \E a \in Angles, b \in Angles, t \in Factors :
    SetEval([op |-> "lerp_angle", args |-> [a |-> a, b |-> b, t |-> t],
             out |-> lerp_angle(a, b, t)])

NextSample == SampleJointLerp \/ LerpAngle

SpecSample == Init /\ [][NextSample]_vars

\* ============================================================= poses
\* ------------------------------------------------------------- bounds
MaxBones == 2           \* bones in a generated pose array

\* ------------------------------------------------------------- bone matrices
\* BoneMatrix: 12 numbers, the x, y and z axis columns and the translation.
BoneAt(x) == <<1, 0, 0, 0, 1, 0, 0, 0, 1, x, 0, 0>>
\* A bone whose rotation block is not orthonormal.
StretchedBone == <<2, 0, 0, 0, 2, 0, 0, 0, 2, 0, 0, 0>>
BonePool == { BoneAt(0), BoneAt(1), StretchedBone }
Poses == UNION { [1..n -> BonePool] : n \in 0..MaxBones }
\* Blend factors, in tenths.
BlendFactors == {0, 5, 10}

\* blend_bone: the interpolated and re-orthonormalized bone, kept as the triple it is
\* computed from (the arithmetic of the twelve components is not evaluated).
blend_bone(from, to, t) == [from |-> from, to |-> to, t |-> t]

\* `from.iter().zip(to.iter()).map(..).collect()`: as long as the shorter array.
zip_blend(from, to, t) ==
  [i \in 1..(IF Len(from) <= Len(to) THEN Len(from) ELSE Len(to)) |->
     blend_bone(from[i], to[i], t)]

\* A blend_poses without the two early returns.
blend_poses_zip_only(from, to, t) == zip_blend(from, to, t)

\* blend_poses
blend_poses(from, to, t) ==
  IF from = <<>> THEN to
  ELSE IF to = <<>> THEN from
  ELSE zip_blend(from, to, t)

\* ------------------------------------------------------------- BlendTree1D
MaxEntries == 3         \* entries added to a generated blend tree

\* An AnimSource, named for what it plays; `bones` is the length of the poses it gives.
AnimSource(name, bones) == [name |-> name, bones |-> bones]

\* sample_source: the pose of a source at a time, each bone kept as what it is sampled
\* from (bvh_time_to_zx and ProceduralAnim::sample are not evaluated).
sample_source(source, time) ==
  [i \in 1..source.bones |-> [source |-> source.name, time |-> time, bone |-> i - 1]]

BlendTree1D_new(parameter) == [entries |-> <<>>, parameter |-> parameter]

\* entry put behind the entries of `sorted` whose threshold is not greater.
RECURSIVE insert_sorted(_, _)
insert_sorted(sorted, entry) ==
  IF sorted # <<>> /\ f32_gt(sorted[Len(sorted)].threshold, entry.threshold)
    THEN Append(insert_sorted(SubSeq(sorted, 1, Len(sorted) - 1), entry), sorted[Len(sorted)])
    ELSE Append(sorted, entry)

\* `entries.sort_by(|a, b| a.1.partial_cmp(&b.1).unwrap())`: a stable sort.
RECURSIVE sort_by_threshold(_)
sort_by_threshold(entries) ==
  IF entries = <<>> THEN <<>>
  ELSE insert_sorted(sort_by_threshold(SubSeq(entries, 1, Len(entries) - 1)),
                     entries[Len(entries)])

\* An add_mocap that pushes the entry and leaves the entries as they are.
add_mocap_unsorted(tree, source, threshold) ==
  [tree EXCEPT !.entries = Append(@, [source |-> source, threshold |-> threshold])]

\* BlendTree1D::add_mocap
add_mocap(tree, source, threshold) ==
  [tree EXCEPT !.entries =
     sort_by_threshold(Append(@, [source |-> source, threshold |-> threshold]))]

\* sample, "Find surrounding entries": the loop from entry i (0-based) on.
RECURSIVE find_surrounding(_, _, _, _, _)
find_surrounding(entries, param_value, i, lower_idx, upper_idx) ==
  IF i >= Len(entries) THEN [lower_idx |-> lower_idx, upper_idx |-> upper_idx]
  ELSE LET threshold == entries[i + 1].threshold
       IN  find_surrounding(entries, param_value, i + 1,
             IF ~f32_gt(threshold, param_value) THEN i ELSE lower_idx,
             IF ~f32_lt(threshold, param_value) /\ upper_idx = 0 THEN i ELSE upper_idx)

\* BlendTree1D::sample
BlendTree1D_sample(tree, param_value, time) ==
  LET found == find_surrounding(tree.entries, param_value, 0, 0, 0)
      lower_idx == found.lower_idx
      upper_idx == IF found.upper_idx >= lower_idx THEN found.upper_idx ELSE lower_idx
      lower_threshold == tree.entries[lower_idx + 1].threshold
      upper_threshold == tree.entries[upper_idx + 1].threshold
      t == f32_div(f32_sub(param_value, lower_threshold),
                   f32_sub(upper_threshold, lower_threshold))
  IN  IF tree.entries = <<>> THEN <<>>
      ELSE IF lower_idx = upper_idx
        THEN sample_source(tree.entries[lower_idx + 1].source, time)
      ELSE blend_poses(sample_source(tree.entries[lower_idx + 1].source, time),
                       sample_source(tree.entries[upper_idx + 1].source, time), t)

\* The entries a tree is built from, and the trees: every order of adding up to
\* MaxEntries different ones.
EntryPool ==
  { [source |-> AnimSource("idle", 2), threshold |-> f32_from_int(0)],
    [source |-> AnimSource("walk", 2), threshold |-> f32_from_int(5)],
    [source |-> AnimSource("jog", 1), threshold |-> f32_from_int(5)],
    [source |-> AnimSource("run", 2), threshold |-> f32_from_int(10)] }

RECURSIVE BuildTree(_)
BuildTree(added) ==
  IF added = <<>> THEN BlendTree1D_new("speed")
  ELSE add_mocap(BuildTree(SubSeq(added, 1, Len(added) - 1)),
                 added[Len(added)].source, added[Len(added)].threshold)

BlendTrees ==
  { BuildTree(added) :
      added \in { a \in UNION { [1..n -> EntryPool] : n \in 0..MaxEntries } :
                    \A i, j \in 1..Len(a) : i # j => a[i] # a[j] } }

ParamInputs == { f32_from_int(v) : v \in {-1, 0, 2, 5, 7, 10, 12} }
TimeInputs == { f32_from_int(0), f32_from_int(1) }

\* ------------------------------------------------------------- calls
BlendTreeSample ==
  \E tree \in BlendTrees, param_value \in ParamInputs, time \in TimeInputs :
    SetEval([op |-> "BlendTree1D::sample",
             args |-> [tree |-> tree, param_value |-> param_value, time |-> time],
             out |-> BlendTree1D_sample(tree, param_value, time)])

BlendPoses ==
  \E from \in Poses, to \in Poses, t \in BlendFactors :
    SetEval([op |-> "blend_poses", args |-> [from |-> from, to |-> to, t |-> t],
             out |-> blend_poses(from, to, t)])

\* BlendTree1D::new followed by one add_mocap per element of `added`, in order.
AddMocaps ==
  \E added \in UNION { [1..n -> EntryPool] : n \in 0..MaxEntries } :
    SetEval([op |-> "BlendTree1D::add_mocap", args |-> [added |-> added],
             out |-> BuildTree(added)])

NextPose == BlendPoses \/ BlendTreeSample \/ AddMocaps

SpecPose == Init /\ [][NextPose]_vars

\* ============================================================= LayeredAnimator
\* ------------------------------------------------------------- bounds
MaxLayers == 2          \* overlay layers added to the animator

\* ------------------------------------------------------------- sampling the controller
\* The number of bones in the poses of each animation, by name.
PoseLength ==
  ("idle" :> 2) @@ ("walk" :> 2) @@ ("attack" :> 2) @@ ("aim" :> 2) @@ ("nod" :> 2) @@
  ("wave" :> 1)

\* AnimState::sample: the pose of the state's source at the state's time.
AnimState_sample(name, state) ==
  sample_source(AnimSource(name, PoseLength[name]), state.time)

\* ease_in_out of progress / duration, as the fraction [num, den].
ease_in_out(progress, duration) ==
  IF progress = NAN THEN [num |-> 0, den |-> 0]
  ELSE IF 2 * progress < duration
    THEN [num |-> 2 * progress * progress, den |-> duration * duration]
    ELSE [num |-> 2 * duration * duration
                    - (2 * duration - 2 * progress) * (2 * duration - 2 * progress),
          den |-> 2 * duration * duration]

\* AnimController::sample_current
sample_current(c) ==
  LET from_pose == IF c.current_state \in DOMAIN c.states
                     THEN AnimState_sample(c.current_state, c.states[c.current_state])
                     ELSE <<>>
  IN  IF c.blend_state # <<>>
        THEN LET blend == c.blend_state[1]
                 to_pose == IF blend.to \in DOMAIN c.states
                              THEN AnimState_sample(blend.to, c.states[blend.to])
                              ELSE <<>>
             IN  blend_poses(from_pose, to_pose, ease_in_out(blend.progress, blend.duration))
        ELSE from_pose

\* ------------------------------------------------------------- layers
BoneMask_All == [kind |-> "All", indices |-> {}]
BoneMask_Only(indices) == [kind |-> "Only", indices |-> indices]
BoneMask_Except(indices) == [kind |-> "Except", indices |-> indices]

\* A mask that affects every bone.
BoneMask_affects_all(mask, bone_idx) == TRUE

\* BoneMask::affects
BoneMask_affects(mask, bone_idx) ==
  CASE mask.kind = "All" -> TRUE
    [] mask.kind = "Only" -> bone_idx \in mask.indices
    [] mask.kind = "Except" -> bone_idx \notin mask.indices

\* AnimLayer; weights are in tenths.
AnimLayer(name, weight, mask, state) ==
  [name |-> name, weight |-> weight, mask |-> mask, state |-> state]

\* LayeredAnimator::add_layer
add_layer(layers, layer) == Append(layers, layer)

\* A weight stored as it is given.
clamp_weight_none(weight) == weight

\* f32::clamp(0.0, 1.0), in tenths.
clamp_weight(weight) == IF weight < 0 THEN 0 ELSE IF weight > 10 THEN 10 ELSE weight

\* LayeredAnimator::set_layer_weight: `iter_mut().find` gives the first layer of that
\* name.
set_layer_weight(layers, name, weight) ==
  LET named == { i \in 1..Len(layers) : layers[i].name = name }
  IN  IF named = {} THEN layers
      ELSE LET first == CHOOSE i \in named : \A j \in named : i <= j
           IN  [layers EXCEPT ![first].weight = clamp_weight(weight)]

\* LayeredAnimator::update, "Update layer time".
advance_layer(layer, dt) ==
  LET t == layer.state.time + dt * layer.state.speed
  IN  [layer EXCEPT !.state.time = IF layer.state.looping THEN t % layer.state.duration ELSE t]

\* LayeredAnimator::update, "Blend masked bones".
blend_masked_bones(pose, layer_pose, layer) ==
  [i \in 1..Len(pose) |->
     IF BoneMask_affects(layer.mask, i - 1) /\ i - 1 < Len(layer_pose)
       THEN blend_bone(pose[i], layer_pose[i], layer.weight)
       ELSE pose[i]]

\* LayeredAnimator::update, "Apply overlay layers": the loop from layer i on.
RECURSIVE apply_layers(_, _, _, _)
apply_layers(layers, i, dt, pose) ==
  IF i > Len(layers) THEN [overlay_layers |-> layers, result |-> pose]
  ELSE IF layers[i].weight <= 0 THEN apply_layers(layers, i + 1, dt, pose)
  ELSE LET layer == advance_layer(layers[i], dt)
           layer_pose == AnimState_sample(layer.name, layer.state)
       IN  apply_layers([layers EXCEPT ![i] = layer], i + 1, dt,
                        blend_masked_bones(pose, layer_pose, layer))

\* LayeredAnimator::update
LayeredAnimator_update(c, layers, dt) ==
  LET base == update(c, dt)
      applied == apply_layers(layers, 1, dt, sample_current(base))
  IN  [base_controller |-> base, overlay_layers |-> applied.overlay_layers,
       result |-> applied.result]

\* ------------------------------------------------------------- inputs
LayerPool ==
  { AnimLayer("aim", 5, BoneMask_Except({1}),
              [speed |-> 1, looping |-> TRUE, duration |-> 2, time |-> 0]),
    AnimLayer("nod", 0, BoneMask_Only({1}),
              [speed |-> 1, looping |-> TRUE, duration |-> 2, time |-> 0]),
    AnimLayer("wave", 10, BoneMask_All,
              [speed |-> 2, looping |-> FALSE, duration |-> 3, time |-> 0]) }

\* ------------------------------------------------------------- actions
SetAnimator(c, layers, e, call) ==
  /\ states' = c.states
  /\ transitions' = c.transitions
  /\ current_state' = c.current_state
  /\ blend_state' = c.blend_state
  /\ parameters' = c.parameters
  /\ triggers' = c.triggers
  /\ last' = call
  /\ overlay_layers' = layers
  /\ eval' = e
  /\ UNCHANGED bvhVars

\* LayeredAnimator::new(base) on a controller with the states idle and walk and the
\* transition between them.
InitLayers ==
  LET c == add_transition(
             add_state(add_state(new("idle"), "idle", AnimStatePool["idle"]),
                       "walk", AnimStatePool["walk"]),
             Transition("idle", "walk", 4, ParameterGreater("speed", 5)))
  IN  /\ states = c.states
      /\ transitions = c.transitions
      /\ current_state = c.current_state
      /\ blend_state = c.blend_state
      /\ parameters = c.parameters
      /\ triggers = c.triggers
      /\ last = Call("LayeredAnimator::new", "")
      /\ overlay_layers = <<>>
      /\ eval = NoEval
      /\ BvhIdle

AddLayer ==
  /\ Len(overlay_layers) < MaxLayers
  /\ \E layer \in LayerPool :
       SetAnimator(Ctrl, add_layer(overlay_layers, layer), NoEval,
                   Call("add_layer", ""))

LayeredUpdate ==
  \E dt \in DTs :
    LET a == LayeredAnimator_update(Ctrl, overlay_layers, dt)
    IN  /\ \A n \in DOMAIN a.base_controller.states :
             a.base_controller.states[n].time <= MaxTime
        /\ \A i \in 1..Len(a.overlay_layers) : a.overlay_layers[i].state.time <= MaxTime
        /\ SetAnimator(a.base_controller, a.overlay_layers,
                       [op |-> "LayeredAnimator::update", args |-> <<>>, out |-> a.result],
                       Call("LayeredAnimator::update", ""))

\* base_controller.set_parameter
SetBaseParameter ==
  \E n \in ParamNames, v \in ParamValues :
    SetAnimator(set_parameter(Ctrl, n, v), overlay_layers, NoEval, Call("set_parameter", ""))

NextLayers == AddLayer \/ LayeredUpdate \/ SetBaseParameter

SpecLayers == InitLayers /\ [][NextLayers]_vars

\* The animator with its layer weights set between updates (the base controller is
\* left to run in its initial state).
LayerNames == { layer.name : layer \in LayerPool } \cup {"tail"}
WeightInputs == {-5, 5, 15}

SetLayerWeight ==
  \E name \in LayerNames, weight \in WeightInputs :
    SetAnimator(Ctrl, set_layer_weight(overlay_layers, name, weight), NoEval,
                Call("set_layer_weight", ""))

NextWeights == AddLayer \/ SetLayerWeight \/ LayeredUpdate

SpecWeights == InitLayers /\ [][NextWeights]_vars

\* ============================================================= claims
\* ------------------------------------------------------------- helpers
Min(S) == CHOOSE x \in S : \A y \in S : x <= y

\* The registered transitions that leave c's current state with a satisfied guard.
Matching(c) ==
  { i \in 1..Len(c.transitions) :
      /\ c.transitions[i].from = c.current_state
      /\ should_transition(c, c.transitions[i].condition) }

\* c as check_transitions sees it in an update(dt): after both time advances.
Advanced(c, dt) == advance_blend_target(advance_current(c, dt), dt)

\* n successive update(dt) calls (the test on next makes TLC compute each tick's
\* controller before the following tick).
RECURSIVE Ticks(_, _, _)
Ticks(c, dt, n) ==
  IF n = 0 THEN c
  ELSE LET next == update(c, dt)
       IN  IF next = next THEN Ticks(next, dt, n - 1) ELSE next

\* The least n with n * dt >= d, for dt > 0.
TicksToReach(d, dt) == Min({ n \in 1..(d + 1) : n * dt >= d })

InFlight(from, to, progress, duration) ==
  << [from |-> from, to |-> to, progress |-> progress, duration |-> duration] >>

\* The controller of the spec's transition example: states idle and walk, the
\* transition idle -> walk guarded by speed > 0.5 with blend duration 0.2 s, speed = 1.0.
ExampleController ==
  set_parameter(
    add_transition(
      add_state(add_state(new("idle"), "idle", AnimStatePool["idle"]),
                "walk", AnimStatePool["walk"]),
      Transition("idle", "walk", 12, ParameterGreater("speed", 5))),
    "speed", 10)

\* The example controller after 15 ticks of dt = 1/60 s.
ExampleAfterTicks == Ticks(ExampleController, 1, 15)

C2_TriggersOneShot ==
  last.op = "update" =>
    /\ triggers = {}
    /\ \A dt \in DTs :
         LET M == Matching(Advanced(Ctrl, dt))
         IN  M # {} => transitions[Min(M)].condition.kind # "Trigger"

\* An update has just committed the Trigger-guarded transition idle -> attack (the blend
\* is at progress 0) and the trigger that fired it is gone.
C2_Witness ==
  /\ last.op = "update"
  /\ triggers = {}
  /\ blend_state = InFlight("idle", "attack", 0, 1)

\* ------------------------------------------------------------- C3
\* C3: there is at most one in-flight blend and its source is the current state; while
\* a blend is in flight no step changes its source, target or duration or the current
\* state, and its progress never decreases; it ends only by update (the current state
\* becomes its target) or by force_state.
C3_BlendStable ==
  /\ [](/\ Len(blend_state) <= 1
        /\ blend_state # <<>> => blend_state[1].from = current_state)
  /\ [][blend_state # <<>> =>
          IF blend_state' # <<>>
            THEN /\ blend_state'[1].from = blend_state[1].from
                 /\ blend_state'[1].to = blend_state[1].to
                 /\ blend_state'[1].duration = blend_state[1].duration
                 /\ blend_state'[1].progress >= blend_state[1].progress
                 /\ current_state' = current_state
            ELSE \/ last'.op = "update" /\ current_state' = blend_state[1].to
                 \/ last'.op = "force_state"]_vars

\* The blend idle -> walk still in flight after an update although its guard
\* (speed > 0.5) has stopped holding and a second transition from idle is registered.
C3_Witness ==
  /\ last.op = "update"
  /\ blend_state # <<>>
  /\ blend_state[1].from = "idle" /\ blend_state[1].to = "walk"
  /\ blend_state[1].progress >= 2
  /\ get_parameter(Ctrl, "speed") = 0
  /\ Len(transitions) = 2 /\ transitions[2].from = "idle"

\* ------------------------------------------------------------- C4
\* C4: an update with no blend in flight commits the earliest registered transition
\* among those whose `from` is the current state and whose guard is satisfied, and no
\* other; with no such transition it commits nothing.
C4_FirstMatchWins ==
  \A dt \in DTs :
    blend_state = <<>> =>
      LET M == Matching(Advanced(Ctrl, dt))
          c == update(Ctrl, dt)
      IN  IF M = {}
            THEN c.blend_state = <<>> /\ c.current_state = current_state
            ELSE LET t == transitions[Min(M)]
                 IN  /\ t.from = current_state
                     /\ IF c.blend_state = <<>>
                          THEN c.current_state = t.to
                          ELSE /\ c.blend_state =
                                    InFlight(t.from, t.to, c.blend_state[1].progress,
                                             t.duration)
                               /\ c.current_state = current_state

\* Both transitions from idle were satisfied (the trigger was consumed by this update,
\* speed is still 1.0) and the blend committed is the one registered first.
C4_Witness ==
  /\ last.op = "update"
  /\ transitions = << Transition("idle", "attack", 1, Trigger("attack")),
                      Transition("idle", "walk", 4, ParameterGreater("speed", 5)) >>
  /\ get_parameter(Ctrl, "speed") = 10
  /\ blend_state = InFlight("idle", "attack", 0, 1)

\* ------------------------------------------------------------- C5
\* C5: a force_state call naming a registered state makes it the current state, drops
\* any in-flight blend and zeroes that state's time; nothing else changes (no transition
\* is evaluated: no other time moves, no trigger is consumed).
C5_ForceState ==
  [][(last'.op = "force_state" /\ last'.name \in DOMAIN states) =>
        /\ current_state' = last'.name
        /\ blend_state' = <<>>
        /\ states' = [states EXCEPT ![last'.name].time = 0]
        /\ UNCHANGED <<transitions, parameters, triggers>>]_vars

\* force_state has just acted with a trigger still pending and a transition out of the
\* forced state registered that the pending trigger satisfies.
C5_Witness ==
  /\ last.op = "force_state"
  /\ last.name = "idle"
  /\ current_state = "idle"
  /\ blend_state = <<>>
  /\ "attack" \in triggers
  /\ Len(transitions) >= 1
  /\ transitions[1] = Transition("idle", "attack", 1, Trigger("attack"))
  /\ states["walk"].time > 0

\* ------------------------------------------------------------- C6
\* C6: a force_state call naming an unregistered state changes nothing.
C6_ForceUnknownIgnored ==
  [][(last'.op = "force_state" /\ last'.name \notin DOMAIN states) =>
        UNCHANGED <<states, transitions, current_state, blend_state, parameters, triggers>>]_vars

\* force_state of the unregistered "attack" has just been ignored while a blend was in
\* flight and a trigger pending.
C6_Witness ==
  /\ last.op = "force_state"
  /\ last.name \notin DOMAIN states
  /\ blend_state # <<>>
  /\ blend_state[1].progress > 0
  /\ triggers # {}

\* ------------------------------------------------------------- C7
\* C7: the initial state being registered, the current state is a registered state after
\* any sequence of calls.
C7_CurrentRegistered == current_state \in DOMAIN states

\* ------------------------------------------------------------- helpers (BVH)
RECURSIVE Sum(_)
Sum(seq) == IF seq = <<>> THEN 0 ELSE Head(seq) + Sum(Tail(seq))

Returned == result # <<>> /\ result[1].ok
Clip == result[1].clip

\* The names declared by ROOT and JOINT in a file, in file order.
DeclaredNames(input) ==
  LET at == SelectSeq([i \in 1..Len(input) |-> i],
                      LAMBDA i : input[i] \in {"ROOT", "JOINT"} /\ i < Len(input))
  IN  [k \in 1..Len(at) |-> input[at[k] + 1]]

\* The channel counts a file declares, in file order.
DeclaredChannelCounts(input) ==
  LET at == SelectSeq([i \in 1..Len(input) |-> i],
                      LAMBDA i : input[i] = "CHANNELS" /\ i < Len(input)
                                 /\ parse_usize(input[i + 1]) # <<>>)
  IN  [k \in 1..Len(at) |-> parse_usize(input[at[k] + 1])[1]]

\* The first position of lexeme tok in a file, 0 when it is absent.
PositionOf(input, tok) ==
  IF \E i \in 1..Len(input) : input[i] = tok
    THEN CHOOSE i \in 1..Len(input) :
           input[i] = tok /\ \A j \in 1..(i - 1) : input[j] # tok
    ELSE 0

\* The number of lexemes from position i on, line breaks skipped, that parse as f32,
\* up to the first one that does not.
RECURSIVE FloatsFrom(_, _)
FloatsFrom(input, i) ==
  IF i > Len(input) THEN 0
  ELSE IF input[i] = NL THEN FloatsFrom(input, i + 1)
  ELSE IF parse_f32(input[i]) = <<>> THEN 0
  ELSE 1 + FloatsFrom(input, i + 1)

\* The frame count a file declares (the lexeme after "Frames:"), 0 when it has none.
DeclaredFrames(input) ==
  LET at == PositionOf(input, "Frames:")
  IN  IF at = 0 \/ at = Len(input) \/ parse_usize(input[at + 1]) = <<>>
        THEN 0 ELSE parse_usize(input[at + 1])[1]

\* The motion values that follow the frame-time lexeme ("Time:" and the frame time
\* are on one line in every generated file).
MotionValuesIn(input) ==
  LET at == PositionOf(input, "Time:")
  IN  IF at = 0 \/ at >= Len(input) THEN 0 ELSE FloatsFrom(input, at + 2)

\* ------------------------------------------------------------- C8
\* C8: a returned clip has exactly one joint record per ROOT/JOINT declaration of the
\* file, in declaration order (End Sites give none).
C8_OneJointPerDeclaration ==
  Returned => [i \in 1..Len(Clip.joints) |-> Clip.joints[i].name] = DeclaredNames(content)

\* ------------------------------------------------------------- C9
\* C9: in a returned clip total_channels is the sum of the joints' channel counts, and
\* the channel ranges of the joints that own channels start at strictly increasing
\* offsets and are pairwise disjoint.
C9_ChannelLayout ==
  Returned =>
    LET joints == Clip.joints
        owners == { i \in 1..Len(joints) : joints[i].channels # <<>> }
    IN  /\ Clip.total_channels = Sum([i \in 1..Len(joints) |-> Len(joints[i].channels)])
        /\ \A i, j \in owners :
             i < j => joints[i].channel_offset + Len(joints[i].channels)
                        <= joints[j].channel_offset

\* ------------------------------------------------------------- C10
\* C10: a returned clip holds exactly frame_count * total_channels motion values, all
\* read from the file after the frame time; and a file with fewer parseable values
\* there than the frames and channels it declares yields an error and no clip.
C10_MotionComplete ==
  result # <<>> =>
    /\ result[1].ok =>
         /\ Len(Clip.motion_data) = Clip.frame_count * Clip.total_channels
         /\ Len(Clip.motion_data) <= MotionValuesIn(content)
    /\ MotionValuesIn(content) < DeclaredFrames(content) * Sum(DeclaredChannelCounts(content)) =>
         /\ ~result[1].ok
         /\ DOMAIN result[1] = {"ok", "error"}

\* A file whose last motion value is missing has been rejected after its header and
\* all but one of its values were read.
C10_Witness ==
  /\ result # <<>>
  /\ ~result[1].ok
  /\ result[1].error.message = "Insufficient motion data"
  /\ DeclaredFrames(content) = 2
  /\ MotionValuesIn(content) = 2 * Sum(DeclaredChannelCounts(content)) - 1
  /\ tokenizer.pos = Len(content) + 1

\* ------------------------------------------------------------- C11
\* The position of the last lexeme of a file that is not a line break (0 if none).
LastTokenPos(input) ==
  IF \E i \in 1..Len(input) : input[i] # NL
    THEN CHOOSE i \in 1..Len(input) :
           input[i] # NL /\ \A j \in (i + 1)..Len(input) : input[j] = NL
    ELSE 0

\* The 1-based line of position i: one more than the line breaks before it.
LineOf(input, i) == 1 + Cardinality({ j \in 1..(i - 1) : input[j] = NL })

\* The parse of a file that lacks exactly its final motion value has failed at the end
\* of the input.
MissingFinalValue ==
  /\ result # <<>>
  /\ ~result[1].ok
  /\ result[1].error.message = "Insufficient motion data"
  /\ tokenizer.pos = Len(content) + 1
  /\ DeclaredFrames(content) > 0
  /\ MotionValuesIn(content) + 1
       = DeclaredFrames(content) * Sum(DeclaredChannelCounts(content))

\* C11 as stated: a file missing its final motion value is rejected with the line of the
\* last parsed token or the line after it, however many line breaks follow that token.
C11_LineOfLastTokenOrNext ==
  MissingFinalValue =>
    LET at == LineOf(content, LastTokenPos(content))
    IN  result[1].error.line \in {at, at + 1}

\* C11 amended: the reported line is the line of the last parsed token plus the number
\* of line breaks that follow it, that is the line on which the input ends.
C11_LineOfEndOfInput ==
  MissingFinalValue =>
    result[1].error.line
      = LineOf(content, LastTokenPos(content)) + (Len(content) - LastTokenPos(content))

\* The rejected file ends with two line breaks after its last value.
C11_Witness ==
  /\ MissingFinalValue
  /\ Len(content) - LastTokenPos(content) = 2
  /\ result[1].error.line = LineOf(content, LastTokenPos(content)) + 2

\* ------------------------------------------------------------- C12
Retargeted == eval.op = "retarget_frame"

\* The 1-based positions of the mappings of a call that name target idx and whose
\* source joint the clip has.
Applicable(idx) ==
  { i \in 1..Len(eval.args.mappings) :
      /\ eval.args.mappings[i].target_index = idx
      /\ \E j \in 1..Len(Clip.joints) : Clip.joints[j].name = eval.args.mappings[i].source_name }

\* The first joint of the clip that carries the source name of mapping i.
SourceOf(i) ==
  CHOOSE j \in 0..(Len(Clip.joints) - 1) :
    /\ Clip.joints[j + 1].name = eval.args.mappings[i].source_name
    /\ \A k \in 0..(j - 1) : Clip.joints[k + 1].name # eval.args.mappings[i].source_name

\* What mapping i (identity rotation offset) is to leave on its target: the sampled
\* position times both scales, the sampled rotation as it is.
Carried(i) ==
  LET sampled == sample_joint(Clip, SourceOf(i), eval.args.frame)
      scale == eval.args.position_scale * eval.args.mappings[i].position_scale
  IN  [position |-> [k \in 1..3 |-> sampled.position[k] * scale],
       rotation |-> sampled.rotation]

\* C12 as stated: retarget_frame returns target_bone_count transforms, a target index no
\* applicable mapping names holds the default transform, and a target index named by an
\* applicable mapping with identity rotation offset holds that mapping's source data.
C12_EveryMappingShows ==
  Retargeted =>
    /\ Len(eval.out) = eval.args.target_bone_count
    /\ \A idx \in 0..(eval.args.target_bone_count - 1) :
         /\ Applicable(idx) = {} => eval.out[idx + 1] = JointTransform_default
         /\ \A i \in Applicable(idx) :
              eval.args.mappings[i].rotation_offset = IDENTITY_QUAT
                => eval.out[idx + 1] = Carried(i)

\* C12 amended: as stated, but a target index named by several applicable mappings holds
\* the data of the last of them in list order.
C12_LastMappingShows ==
  Retargeted =>
    /\ Len(eval.out) = eval.args.target_bone_count
    /\ \A idx \in 0..(eval.args.target_bone_count - 1) :
         /\ Applicable(idx) = {} => eval.out[idx + 1] = JointTransform_default
         /\ \A i \in Applicable(idx) :
              /\ \A j \in Applicable(idx) : j <= i
              /\ eval.args.mappings[i].rotation_offset = IDENTITY_QUAT
              => eval.out[idx + 1] = Carried(i)

\* Of three target bones the last has no mapping and stays at the default, while bone 0,
\* named by two mappings, shows the scaled root position of the second.
C12_Witness ==
  /\ Retargeted
  /\ eval.args.target_bone_count = 3
  /\ eval.args.position_scale = 2
  /\ eval.args.mappings = << BoneMapping("Spine", 0, IDENTITY_QUAT, 1),
                             BoneMapping("Hips", 0, IDENTITY_QUAT, 1) >>
  /\ eval.out[3] = JointTransform_default
  /\ eval.out[1].position = <<2, 4, 0>>
  /\ eval.out[1] # JointTransform_default

\* ------------------------------------------------------------- C13
\* C13: blend_poses with exactly one of the two pose arrays empty returns the other one
\* as it is (same length, same bone matrices), for every t and whichever argument is the
\* empty one; with both empty it returns an empty array.
C13_BlendWithEmpty ==
  eval.op = "blend_poses" =>
    /\ (eval.args.from = <<>> /\ eval.args.to # <<>>) => eval.out = eval.args.to
    /\ (eval.args.to = <<>> /\ eval.args.from # <<>>) => eval.out = eval.args.from
    /\ (eval.args.from = <<>> /\ eval.args.to = <<>>) => eval.out = <<>>

\* A pose of two bones, one of them not orthonormal, has come back unchanged from a
\* blend with an empty `to` at t = 0.5.
C13_Witness ==
  /\ eval.op = "blend_poses"
  /\ eval.args.to = <<>>
  /\ eval.args.t = 5
  /\ eval.args.from = <<StretchedBone, BoneAt(1)>>
  /\ eval.out = <<StretchedBone, BoneAt(1)>>

\* ------------------------------------------------------------- C14
SampledInTime == eval.op = "sample_joint_lerp"

\* The time of frame k as a caller computes it: k as f32 * frame_time.
TimeOfFrame(clip, k) == f32_mul(f32_from_int(k), clip.frame_time)

\* C14 as stated: sampling at k * frame_time, 0 <= k <= frame_count - 1, gives exactly
\* the sample of frame k, and sampling at or beyond the time of the last frame gives the
\* sample of the last frame.
C14_ExactAtFrameTimes ==
  SampledInTime =>
    LET clip == eval.args.clip
        last_frame == clip.frame_count - 1
    IN  /\ \A k \in 0..last_frame :
             eval.args.time = TimeOfFrame(clip, k)
               => eval.out = sample_joint(clip, eval.args.joint_idx, k)
        /\ ~f32_lt(eval.args.time, TimeOfFrame(clip, last_frame))
             => eval.out = sample_joint(clip, eval.args.joint_idx, last_frame)

\* C14 amended: when the f32 quotient time / frame_time is exactly an integer k,
\* 0 <= k <= frame_count - 1, the result is exactly the sample of frame k, and when the
\* quotient is at or beyond frame_count - 1 it is the sample of the last frame.
C14_ExactAtWholeQuotients ==
  SampledInTime =>
    LET clip == eval.args.clip
        last_frame == clip.frame_count - 1
        quotient == f32_div(eval.args.time, clip.frame_time)
    IN  /\ \A k \in 0..last_frame :
             quotient = f32_from_int(k)
               => eval.out = sample_joint(clip, eval.args.joint_idx, k)
        /\ ~f32_lt(quotient, f32_from_int(last_frame))
             => eval.out = sample_joint(clip, eval.args.joint_idx, last_frame)

\* A clip of nine frames has been sampled at 4 * 0.5 s: the quotient is exactly 4 and
\* the result is frame 4, whose values differ from those of frames 3 and 5.
C14_Witness ==
  /\ SampledInTime
  /\ eval.args.clip = SampledClip(9, FRAME_TIME_HALF)
  /\ eval.args.time = f32_from_int(2)
  /\ eval.out = sample_joint(eval.args.clip, 0, 4)
  /\ eval.out # sample_joint(eval.args.clip, 0, 3)
  /\ eval.out # sample_joint(eval.args.clip, 0, 5)

\* ------------------------------------------------------------- C15
\* The value of an f32 that is a whole number of quarters, in quarters.
Quarters(x) == IF x.e + 2 >= 0 THEN x.m * 2^(x.e + 2) ELSE x.m \div 2^(-(x.e + 2))

TreeSampled == eval.op = "BlendTree1D::sample"

\* The entries of the sampled tree (1-based) of the largest threshold <= value, and of
\* the smallest threshold >= value.
LowerEntries ==
  LET entries == eval.args.tree.entries
      v == eval.args.param_value
  IN  { i \in 1..Len(entries) :
          /\ ~f32_gt(entries[i].threshold, v)
          /\ \A j \in 1..Len(entries) :
               ~f32_gt(entries[j].threshold, v) => ~f32_gt(entries[j].threshold, entries[i].threshold) }
UpperEntries ==
  LET entries == eval.args.tree.entries
      v == eval.args.param_value
  IN  { i \in 1..Len(entries) :
          /\ ~f32_lt(entries[i].threshold, v)
          /\ \A j \in 1..Len(entries) :
               ~f32_lt(entries[j].threshold, v) => ~f32_lt(entries[j].threshold, entries[i].threshold) }

\* C16: sampling a non-empty tree at a value that has an entry at or below it and one at
\* or above it takes the entry of the largest threshold <= value and the entry of the
\* smallest threshold >= value; when the value equals an entry's threshold (the first
\* entry's included) only that entry's source is sampled, otherwise the two poses are
\* blended with weight (value - lower) / (upper - lower).
C16_BlendTreeSelection ==
  (TreeSampled /\ LowerEntries # {} /\ UpperEntries # {}) =>
    LET entries == eval.args.tree.entries
        v == eval.args.param_value
        time == eval.args.time
    IN  \E lo \in LowerEntries, hi \in UpperEntries :
          IF entries[lo].threshold = entries[hi].threshold
            THEN lo = hi /\ eval.out = sample_source(entries[lo].source, time)
            ELSE eval.out =
                   blend_poses(sample_source(entries[lo].source, time),
                               sample_source(entries[hi].source, time),
                               f32_div(f32_sub(v, entries[lo].threshold),
                                       f32_sub(entries[hi].threshold, entries[lo].threshold)))

\* ------------------------------------------------------------- C17
LayersApplied == last.op = "LayeredAnimator::update"

\* Layer k (1-based) overwrites bone i (0-based) in an update.
Overwrites(k, i) ==
  /\ overlay_layers[k].weight > 0
  /\ CASE overlay_layers[k].mask.kind = "All" -> TRUE
        [] overlay_layers[k].mask.kind = "Only" -> i \in overlay_layers[k].mask.indices
        [] overlay_layers[k].mask.kind = "Except" -> i \notin overlay_layers[k].mask.indices
  /\ i < PoseLength[overlay_layers[k].name]

\* Bone i of the result once the first k layers have been applied to the base pose.
RECURSIVE AfterLayers(_, _, _)
AfterLayers(base, k, i) ==
  IF k = 0 THEN base[i + 1]
  ELSE IF Overwrites(k, i)
    THEN [from |-> AfterLayers(base, k - 1, i),
          to |-> [source |-> overlay_layers[k].name, time |-> overlay_layers[k].state.time,
                  bone |-> i],
          t |-> overlay_layers[k].weight]
  ELSE AfterLayers(base, k - 1, i)

\* C17: the result of LayeredAnimator::update is the base controller's pose of that tick
\* with the layers applied in list order on the accumulated result: layer k replaces bone
\* i by the blend of the accumulated bone and its own bone i at its weight exactly when
\* its weight is > 0, its mask affects i and i is within its pose; a bone no such layer
\* overwrites is the base controller's bone.
C17_LayersInOrder ==
  LayersApplied =>
    LET base == sample_current(Ctrl)
    IN  /\ Len(eval.out) = Len(base)
        /\ \A i \in 0..(Len(base) - 1) :
             /\ eval.out[i + 1] = AfterLayers(base, Len(overlay_layers), i)
             /\ (\A k \in 1..Len(overlay_layers) : ~Overwrites(k, i))
                  => eval.out[i + 1] = base[i + 1]

\* During a blend of the base, two positive-weight layers have both overwritten bone 0,
\* the later on top of the earlier, and bone 1, which the mask of the first excludes and
\* the pose of the second does not reach, is the base controller's.
C17_Witness ==
  /\ LayersApplied
  /\ blend_state # <<>>
  /\ Len(overlay_layers) = 2
  /\ overlay_layers[1].name = "aim" /\ overlay_layers[1].weight = 5
  /\ overlay_layers[2].name = "wave" /\ overlay_layers[2].weight = 10
  /\ eval.out[1].t = 10 /\ eval.out[1].from.t = 5
  /\ eval.out[2] = sample_current(Ctrl)[2]

\* ------------------------------------------------------------- C18
NameLookedUp == eval.op = "joint_index"

\* The indices of the joint records of the parsed clip that carry the name looked up.
Carrying ==
  { i \in 0..(Len(result[1].clip.joints) - 1) :
      result[1].clip.joints[i + 1].name = eval.args.name }

\* C18: joint_index(name) on a parsed clip is Some of the largest index whose joint
\* record has that name, and None when no joint record has it.
C18_LastWins ==
  NameLookedUp =>
    IF Carrying = {} THEN eval.out = <<>>
    ELSE /\ eval.out # <<>>
         /\ eval.out[1] \in Carrying
         /\ \A i \in Carrying : i <= eval.out[1]

\* A name that two joint records carry has been looked up.
C18_Witness ==
  /\ NameLookedUp
  /\ Cardinality(Carrying) >= 2
  /\ eval.out # <<>>

\* ------------------------------------------------------------- C19
\* The guard `cond` evaluated on the current state's time already advanced by dt and on
\* the triggers fired before the update.
GuardAfterAdvance(cond, dt) ==
  CASE cond.kind = "Immediate" -> TRUE
    [] cond.kind = "OnComplete" ->
         /\ current_state \in DOMAIN states
         /\ ~states[current_state].looping
         /\ states[current_state].time + dt * states[current_state].speed
              >= states[current_state].duration
    [] cond.kind = "ParameterGreater" ->
         cond.name \in DOMAIN parameters /\ parameters[cond.name] > cond.threshold
    [] cond.kind = "ParameterLess" ->
         IF cond.name \in DOMAIN parameters THEN parameters[cond.name] < cond.threshold
         ELSE 0 < cond.threshold
    [] cond.kind = "Trigger" -> cond.name \in triggers

FiringAfterAdvance(dt) ==
  { i \in 1..Len(transitions) :
      /\ transitions[i].from = current_state
      /\ GuardAfterAdvance(transitions[i].condition, dt) }

\* C19: an update(dt) with no blend in flight evaluates the guards on the time this
\* tick has already advanced and on the triggers fired before it (an OnComplete guard
\* fires in the tick in which the time reaches the duration), the blend it commits has
\* progress dt / duration after the same update and is finalized by it when
\* dt >= duration, and the triggers are empty afterwards.
C19_StepOrder ==
  \A dt \in DTs :
    blend_state = <<>> =>
      LET c == update(Ctrl, dt)
          F == FiringAfterAdvance(dt)
      IN  /\ c.triggers = {}
          /\ IF F = {}
               THEN c.blend_state = <<>> /\ c.current_state = current_state
               ELSE LET t == transitions[Min(F)]
                    IN  IF dt >= t.duration
                          THEN c.blend_state = <<>> /\ c.current_state = t.to
                          ELSE /\ c.blend_state = InFlight(t.from, t.to, dt, t.duration)
                               /\ c.current_state = current_state

\* ------------------------------------------------------------- C20
\* The current state is registered and non-looping and its time, advanced by this
\* tick's dt, has reached its duration.
Complete(dt) ==
  /\ current_state \in DOMAIN states
  /\ ~states[current_state].looping
  /\ states[current_state].time + dt * states[current_state].speed
       >= states[current_state].duration

\* The OnComplete-guarded transitions out of the current state.
OnCompleteFrom ==
  { i \in 1..Len(transitions) :
      transitions[i].from = current_state /\ transitions[i].condition.kind = "OnComplete" }

\* No guard of another kind out of the current state fires in an update(dt).
OnlyOnComplete(dt) ==
  /\ OnCompleteFrom # {}
  /\ FiringAfterAdvance(dt) \subseteq OnCompleteFrom

\* c, the controller after update(dt), shows that the update committed transition t
\* (a blend that the same update finalized shows by the new current state, or, when
\* the target is the current state again, by its time reset to zero).
Committed(c, t, dt) ==
  IF dt >= t.duration /\ dt > 0
    THEN /\ c.blend_state = <<>>
         /\ c.current_state = t.to
         /\ t.to \in DOMAIN states => c.states[t.to].time = 0
         /\ t.to = current_state => t.to \in DOMAIN states
    ELSE /\ c.blend_state # <<>>
         /\ c.blend_state[1].from = t.from /\ c.blend_state[1].to = t.to

\* The current state is the target of the blend in flight, or of the blend an
\* update(dt) commits.
SelfTarget(dt) ==
  IF blend_state # <<>> THEN blend_state[1].to = current_state
  ELSE /\ FiringAfterAdvance(dt) # {}
       /\ transitions[Min(FiringAfterAdvance(dt))].to = current_state

\* An update(dt) with only OnComplete guards to decide commits the first of them exactly
\* when the current state is registered, non-looping and at or past its duration.
OnCompleteExactly ==
  \A dt \in DTs :
    (blend_state = <<>> /\ OnlyOnComplete(dt)) =>
      (Committed(update(Ctrl, dt), transitions[Min(OnCompleteFrom)], dt) <=> Complete(dt))

\* C20 as claimed: OnComplete is satisfied exactly when the current state is registered,
\* non-looping and at or past its duration (so never for a looping state), and every
\* update(dt) leaves the time of a registered non-looping current state at its former
\* time + dt * speed.
C20_TimeKeepsGrowing ==
  /\ OnCompleteExactly
  /\ \A dt \in DTs :
       (current_state \in DOMAIN states /\ ~states[current_state].looping) =>
         update(Ctrl, dt).states[current_state].time
           = states[current_state].time + dt * states[current_state].speed

\* C20, amended: as above, but the time grows by dt * speed unless the state is itself
\* the target of the blend in flight or of the blend committed in that update.
C20_TimeKeepsGrowingUnlessTarget ==
  /\ OnCompleteExactly
  /\ \A dt \in DTs :
       (/\ current_state \in DOMAIN states
        /\ ~states[current_state].looping
        /\ ~SelfTarget(dt)) =>
         update(Ctrl, dt).states[current_state].time
           = states[current_state].time + dt * states[current_state].speed

\* The OnComplete transition attack -> idle has been committed by an update while the
\* time of attack, which had grown past its duration, is still the current state's.
C20_Witness ==
  /\ last.op = "update"
  /\ blend_state # <<>>
  /\ blend_state[1].from = "attack" /\ blend_state[1].to = "idle"
  /\ current_state = "attack"
  /\ states["attack"].time > states["attack"].duration

\* ------------------------------------------------------------- C21
\* C21: after every update the time of a registered looping current state lies in
\* [0, duration), also in the update that finalizes a blend and makes its target the
\* current state.
C21_LoopingTimeInRange ==
  (/\ last.op = "update"
   /\ current_state \in DOMAIN states
   /\ states[current_state].looping) =>
    /\ 0 <= states[current_state].time
    /\ states[current_state].time < states[current_state].duration

\* ------------------------------------------------------------- C22
\* The time of `state` advanced by dt with the rule of the current state.
AdvancedLikeCurrent(state, dt) ==
  LET t == state.time + dt * state.speed
  IN  IF state.looping /\ t >= state.duration THEN t % state.duration ELSE t

\* C22: an update(dt) with a blend in flight leaves the time of the registered blend
\* target where the rule of the current state would (time + dt * speed, wrapped into
\* [0, duration) when looping), and an update that commits a blend leaves the time of its
\* registered target at zero.
C22_TargetAdvancesLikeCurrent ==
  \A dt \in DTs :
    LET c == update(Ctrl, dt)
    IN  IF blend_state # <<>>
          THEN LET to == blend_state[1].to
               IN  to \in DOMAIN states =>
                     c.states[to].time = AdvancedLikeCurrent(states[to], dt)
          ELSE LET F == FiringAfterAdvance(dt)
               IN  (F # {} /\ transitions[Min(F)].to \in DOMAIN states) =>
                     c.states[transitions[Min(F)].to].time = 0

\* ------------------------------------------------------------- C23
\* C23: for blend durations > 0, a blend in flight has progress in [0, 1) (numerator in
\* [0, duration)), an update with the blend in flight never lowers its progress, and the
\* update in which progress + dt / duration reaches 1 discards the blend and makes its
\* target the current state, while any other update keeps it in flight.
C23_BlendProgress ==
  /\ [](blend_state # <<>> /\ blend_state[1].duration > 0 =>
          /\ 0 <= blend_state[1].progress
          /\ blend_state[1].progress < blend_state[1].duration
          /\ \A dt \in DTs :
               LET c == update(Ctrl, dt)
               IN  IF blend_state[1].progress + dt >= blend_state[1].duration
                     THEN c.blend_state = <<>> /\ c.current_state = blend_state[1].to
                     ELSE /\ c.blend_state # <<>>
                          /\ c.current_state = current_state)
  /\ [][(/\ blend_state # <<>> /\ blend_state[1].duration > 0
         /\ last'.op = "update" /\ blend_state' # <<>>) =>
          blend_state'[1].progress >= blend_state[1].progress]_vars

\* An update has finalized a blend into attack: attack is the current state with no
\* blend in flight, and its time has advanced since the commit reset it.
C23_Witness ==
  /\ last.op = "update"
  /\ blend_state = <<>>
  /\ current_state = "attack"
  /\ "attack" \in DOMAIN states
  /\ states["attack"].time = 2
  /\ states["idle"].time = 1

\* ------------------------------------------------------------- C24
MocapsAdded == eval.op = "BlendTree1D::add_mocap"

\* How many elements of the sequence are the entry e.
Occurrences(seq, e) == Cardinality({ i \in 1..Len(seq) : seq[i] = e })

\* C24: the entries of a tree after any sequence of add_mocap calls are in order of
\* non-decreasing threshold and are exactly the (source, threshold) pairs added, each as
\* often as it was added; and a tree without entries samples to the empty pose.
C24_EntriesSorted ==
  /\ MocapsAdded =>
       LET entries == eval.out.entries
       IN  /\ \A i \in 1..(Len(entries) - 1) :
                 ~f32_gt(entries[i].threshold, entries[i + 1].threshold)
           /\ Len(entries) = Len(eval.args.added)
           /\ \A e \in EntryPool : Occurrences(entries, e) = Occurrences(eval.args.added, e)
  /\ (TreeSampled /\ eval.args.tree.entries = <<>>) => eval.out = <<>>

\* Three entries were added with the thresholds in decreasing order.
C24_Witness ==
  /\ MocapsAdded
  /\ Len(eval.args.added) = 3
  /\ f32_gt(eval.args.added[1].threshold, eval.args.added[2].threshold)
  /\ f32_gt(eval.args.added[2].threshold, eval.args.added[3].threshold)
  /\ eval.out.entries[1] = eval.args.added[3]

\* ------------------------------------------------------------- C30
\* The sampled pose is a blend of two entries (each bone a blend_bone result).
IsBlend(pose) == pose # <<>> /\ "t" \in DOMAIN pose[1]

\* C30: BlendTree1D::sample on a tree with entries blends, if it blends, with a finite
\* weight in [0, 1] (no division by a zero threshold difference), and a value below the
\* smallest threshold or above the largest samples the first or the last entry alone.
C30_WeightInRange ==
  (TreeSampled /\ eval.args.tree.entries # <<>>) =>
    LET entries == eval.args.tree.entries
        v == eval.args.param_value
    IN  /\ IsBlend(eval.out) =>
             /\ eval.out[1].t \notin {F32_NAN, F32_INFINITY(1), F32_INFINITY(-1)}
             /\ ~f32_lt(eval.out[1].t, f32_from_int(0))
             /\ ~f32_gt(eval.out[1].t, f32_from_int(1))
        /\ f32_lt(v, entries[1].threshold) =>
             eval.out = sample_source(entries[1].source, eval.args.time)
        /\ f32_gt(v, entries[Len(entries)].threshold) =>
             eval.out = sample_source(entries[Len(entries)].source, eval.args.time)

\* ------------------------------------------------------------- C25
Converted == eval.op = "bvh_frame_to_zx"

\* The world transform of joint i (0-based) of the parsed clip, by descent to its
\* ancestors.
RECURSIVE WorldOf(_, _)
WorldOf(i, depth) ==
  LET joint == Clip.joints[i + 1]
      local == local_mat(Clip, i, eval.args.frame, eval.args.position_scale)
  IN  IF joint.parent = <<>> \/ depth = 0 THEN local
      ELSE [multiply_3x4 |-> <<WorldOf(joint.parent[1], depth - 1), local>>]

\* C25: in a clip the parser returns every joint record with a parent has a parent
\* index smaller than its own, and bvh_frame_to_zx on the clip does not fail and yields
\* one bone per joint record, in index order: the flattened world transform, which is
\* the local matrix for a record without a parent and the parent's world transform
\* times the local matrix otherwise.
C25_ParentBeforeChild ==
  /\ Returned =>
       \A i \in 0..(Len(Clip.joints) - 1) :
         Clip.joints[i + 1].parent # <<>> =>
           /\ 0 <= Clip.joints[i + 1].parent[1]
           /\ Clip.joints[i + 1].parent[1] < i
  /\ Converted =>
       /\ ~eval.out.panic
       /\ Len(eval.out.bones) = Len(Clip.joints)
       /\ \A i \in 0..(Len(Clip.joints) - 1) :
            /\ eval.out.bones[i + 1] = [flatten_3x4 |-> WorldOf(i, Len(Clip.joints))]
            /\ Clip.joints[i + 1].parent = <<>> =>
                 eval.out.bones[i + 1] =
                   [flatten_3x4 |-> local_mat(Clip, i, eval.args.frame,
                                              eval.args.position_scale)]

\* A clip with a joint two levels below the root has been converted.
C25_Witness ==
  /\ Converted
  /\ \E i \in 1..Len(Clip.joints) :
       /\ Clip.joints[i].parent # <<>>
       /\ Clip.joints[Clip.joints[i].parent[1] + 1].parent # <<>>
  /\ Len(eval.out.bones) >= 3

\* ------------------------------------------------------------- C26
\* The elements of a sequence.
Range(seq) == { seq[i] : i \in 1..Len(seq) }

\* C26: the joint records of a clip the parser returns form one tree: exactly one record
\* has no parent, and record j has parent p exactly when j is among the children of p.
C26_SingleTree ==
  Returned =>
    /\ Cardinality({ j \in 1..Len(Clip.joints) : Clip.joints[j].parent = <<>> }) = 1
    /\ \A j, p \in 0..(Len(Clip.joints) - 1) :
         (Clip.joints[j + 1].parent = <<p>>) <=> (j \in Range(Clip.joints[p + 1].children))

\* ------------------------------------------------------------- C27
\* The first layer (1-based) with the name, or 0.
FirstNamed(name) ==
  IF \E i \in 1..Len(overlay_layers) : overlay_layers[i].name = name
    THEN Min({ i \in 1..Len(overlay_layers) : overlay_layers[i].name = name })
    ELSE 0

\* C27: set_layer_weight(name, w) changes only the weight of the first layer with that
\* name, to w clamped into [0, 1], and changes nothing when no layer has the name; an
\* update(dt) leaves the time of each layer of weight <= 0 as it is and advances the
\* time of each other layer by dt * speed, taken modulo the duration when looping.
C27_LayerWeightAndTime ==
  /\ \A name \in LayerNames, w \in WeightInputs :
       LET layers == set_layer_weight(overlay_layers, name, w)
           first == FirstNamed(name)
       IN  /\ Len(layers) = Len(overlay_layers)
           /\ \A i \in 1..Len(layers) :
                IF i = first
                  THEN /\ layers[i].weight = (IF w < 0 THEN 0 ELSE IF w > 10 THEN 10 ELSE w)
                       /\ [layers[i] EXCEPT !.weight = overlay_layers[i].weight]
                            = overlay_layers[i]
                  ELSE layers[i] = overlay_layers[i]
  /\ \A dt \in DTs :
       LET layers == LayeredAnimator_update(Ctrl, overlay_layers, dt).overlay_layers
       IN  /\ Len(layers) = Len(overlay_layers)
           /\ \A i \in 1..Len(layers) :
                LET state == overlay_layers[i].state
                    t == state.time + dt * state.speed
                IN  /\ [layers[i] EXCEPT !.state.time = state.time] = overlay_layers[i]
                    /\ layers[i].state.time =
                         IF overlay_layers[i].weight <= 0 THEN state.time
                         ELSE IF state.looping THEN t % state.duration
                         ELSE t

\* Two layers share the name aim: after set_layer_weight the first holds a weight
\* clamped to 1.0 and the second still its own weight, and updates have advanced the
\* time of the second while the first, at weight 0 then, stood still.
C27_Witness ==
  /\ last.op = "set_layer_weight"
  /\ Len(overlay_layers) = 2
  /\ overlay_layers[1].name = "aim" /\ overlay_layers[2].name = "aim"
  /\ overlay_layers[1].weight = 10 /\ overlay_layers[2].weight = 5
  /\ overlay_layers[1].state.time = 0 /\ overlay_layers[2].state.time = 1

\* ------------------------------------------------------------- C28
\* The times an update(dt) may leave a state at when it advances it at most once: its
\* former time, that time plus dt * speed (as such, or wrapped by the duration), or the
\* zero of a committed transition.
AtMostOnce(state, dt) ==
  { state.time, state.time + dt * state.speed,
    (state.time + dt * state.speed) % state.duration, 0 }

\* C28: one update(dt) advances the time of each registered state by dt * speed at most
\* once, also while a blend from the current state to itself is in flight.
C28_AdvancedAtMostOnce ==
  \A dt \in DTs :
    \A name \in DOMAIN states :
      update(Ctrl, dt).states[name].time \in AtMostOnce(states[name], dt)

\* ------------------------------------------------------------- C29
\* The states whose time an update(dt) may change: the current state, the target of the
\* blend in flight, and the target of the transition the update commits.
Timed(dt) ==
  {current_state}
    \cup (IF blend_state # <<>> THEN {blend_state[1].to}
          ELSE IF FiringAfterAdvance(dt) # {}
            THEN {transitions[Min(FiringAfterAdvance(dt))].to}
          ELSE {})

\* c differs from the controller in neither the current state, the blend in flight nor
\* any state's time.
SamePlayback(c) ==
  /\ c.current_state = current_state
  /\ c.blend_state = blend_state
  /\ DOMAIN c.states = DOMAIN states
  /\ \A name \in DOMAIN states : c.states[name].time = states[name].time

\* C29: an update(dt) changes the time of no registered state other than the current
\* state, the target of the blend in flight and the target of the transition it commits
\* (whose time it leaves at zero), and changes neither the parameters nor the registered
\* transitions; set_parameter, set_trigger and add_transition change neither the current
\* state, the blend in flight nor any state's time.
C29_FrameOfUpdate ==
  /\ \A dt \in DTs :
       LET c == update(Ctrl, dt)
       IN  /\ c.parameters = parameters
           /\ c.transitions = transitions
           /\ DOMAIN c.states = DOMAIN states
           /\ \A name \in DOMAIN states \ Timed(dt) :
                c.states[name].time = states[name].time
           /\ (blend_state = <<>> /\ FiringAfterAdvance(dt) # {}) =>
                LET to == transitions[Min(FiringAfterAdvance(dt))].to
                IN  to \in DOMAIN states => c.states[to].time = 0
  /\ \A name \in ParamNames, value \in ParamValues :
       SamePlayback(set_parameter(Ctrl, name, value))
  /\ \A name \in TriggerNames : SamePlayback(set_trigger(Ctrl, name))
  /\ \A t \in TransitionPool \cup EdgeTransitionPool : SamePlayback(add_transition(Ctrl, t))

\* An update has run with the blend idle -> walk in flight while attack, neither the
\* current state nor the target, keeps the time it had reached, and a parameter and the
\* transitions are in place.
C29_Witness ==
  /\ last.op = "update"
  /\ blend_state # <<>>
  /\ blend_state[1].from = "idle" /\ blend_state[1].to = "walk"
  /\ current_state = "idle"
  /\ "attack" \in DOMAIN states /\ states["attack"].time > 0
  /\ states["walk"].time > 0
  /\ "speed" \in DOMAIN parameters
  /\ Len(transitions) = 2


====
